---- MODULE Spec2Model ----
(***************************************************************************)
(* Order Assembly Service: the request pipeline of POST /orders/assemble   *)
(* (express.json -> authenticateApiKey -> validateOrderPayload ->          *)
(* enrichOrderWithMetadata -> assemble -> publishToSQS -> response).       *)
(***************************************************************************)
EXTENDS Integers, Sequences, FiniteSets, TLC

(***************************************************************************)
(* Bounds of the model.                                                    *)
(***************************************************************************)
MaxReqs == 2
MaxTime == 2
MaxItems == 2

Reqs == 1..MaxReqs

(***************************************************************************)
(* State.  req[r] is invocation r of POST /orders/assemble: its inputs     *)
(* (apiKey header, body), the handler's locals, the response sent, the     *)
(* stages entered so far and authAt, the time authenticateApiKey read (-1  *)
(* before it ran).  lookups lists the catalog lookups answered so far,     *)
(* sends counts the calls of sqs.sendMessage and sent the calls of         *)
(* res.json.  queue is the content of the SQS queue, now the clock, drawn  *)
(* the number of draws made from the random source, validApiKeys the       *)
(* object VALID_API_KEYS as it stands in memory, health the last response  *)
(* of GET /health.                                                         *)
(*                                                                         *)
(* The state of the test helpers: defaultApiKey is the module variable of  *)
(* apiHelper and lastKeyCall the last of setDefaultApiKey and              *)
(* resetDefaultApiKey that was called; commands lists the requests handed  *)
(* to cy.request, each with the options of the call and the default key at *)
(* the moment of the call, and delivered counts those Cypress has sent.    *)
(* wait is the one call of sqsHelper.waitForMessage: its arguments, the    *)
(* reading of Date.now(), its position, its polls so far and its outcome.  *)
(* setup is the run of setup.sh: its position, the service and the attempt *)
(* of the loop it is in, the lines it printed and its exit status.         *)
(***************************************************************************)
VARIABLES req, queue, now, drawn, validApiKeys, health,
          defaultApiKey, lastKeyCall, commands, delivered, wait, setup

serviceVars == << req, queue, now, drawn, validApiKeys, health >>

apiVars == << defaultApiKey, lastKeyCall, commands, delivered >>

helperVars == << apiVars, wait, setup >>

vars == << req, queue, now, drawn, validApiKeys, health,
           defaultApiKey, lastKeyCall, commands, delivered, wait, setup >>

(***************************************************************************)
(* JavaScript values.  t is the typeof tag ("undefined", "null", "string", *)
(* "number"); s is the text of a string; a number is n + f/10, n its floor *)
(* and f in 0..9 its tenths.                                               *)
(***************************************************************************)
JUndef == [t |-> "undefined", s |-> "", n |-> 0, f |-> 0]
JNull == [t |-> "null", s |-> "", n |-> 0, f |-> 0]
JStr(x) == [t |-> "string", s |-> x, n |-> 0, f |-> 0]
JNum(x) == [t |-> "number", s |-> "", n |-> x, f |-> 0]
JFrac(x, tenths) == [t |-> "number", s |-> "", n |-> x, f |-> tenths]

\* JavaScript truthiness: undefined, null, "" and 0 are falsy.
Truthy(v) ==
    CASE v.t = "undefined" -> FALSE
      [] v.t = "null" -> FALSE
      [] v.t = "string" -> v.s # ""
      [] v.t = "number" -> v.n # 0 \/ v.f # 0
      [] OTHER -> TRUE

\* v <= 0 for a number v
LeqZero(v) == v.n < 0 \/ (v.n = 0 /\ v.f = 0)

IsString(v) == v.t = "string"

(***************************************************************************)
(* Credentials.                                                            *)
(***************************************************************************)
LimitedKeyExpiresAt == 1

\* expiresAt: hasExpiry = FALSE stands for null (own, stored credential).
VALID_API_KEYS ==
    [k \in {"sk-test-valid-key-123456789", "sk-test-limited-key-987654321"} |->
        IF k = "sk-test-valid-key-123456789"
        THEN [name |-> "Test Client", hasExpiry |-> FALSE, expiresAt |-> 0]
        ELSE [name |-> "Limited Client", hasExpiry |-> TRUE,
              expiresAt |-> LimitedKeyExpiresAt]]

StoredKeys == DOMAIN VALID_API_KEYS

\* Property names every plain object inherits from Object.prototype.
ObjectPrototypeKeys == {"constructor", "toString", "hasOwnProperty", "__proto__"}

\* VALID_API_KEYS[apiKey]: a property read on a plain object.  An own
\* property gives the credential; an inherited one gives a truthy value that
\* has no expiresAt; anything else gives undefined.
KeyLookup(apiKey) ==
    IF apiKey \in DOMAIN validApiKeys
    THEN [found |-> TRUE, name |-> validApiKeys[apiKey].name,
          hasExpiry |-> validApiKeys[apiKey].hasExpiry,
          expiresAt |-> validApiKeys[apiKey].expiresAt]
    ELSE IF apiKey \in ObjectPrototypeKeys
         THEN [found |-> TRUE, name |-> "Object.prototype", hasExpiry |-> FALSE,
               expiresAt |-> 0]
         ELSE [found |-> FALSE, name |-> "", hasExpiry |-> FALSE, expiresAt |-> 0]

\* Variant: the key counts as expired from the instant of its expiry on (>=).
KeyExpiredAtExpiry(keyData, time) == keyData.hasExpiry /\ time >= keyData.expiresAt

\* keyData.expiresAt && new Date() > keyData.expiresAt
KeyExpired(keyData, time) == keyData.hasExpiry /\ time > keyData.expiresAt

(***************************************************************************)
(* HTTP responses.  details is a string (detailsType "string", one         *)
(* element), an array of strings (detailsType "array") or absent.          *)
(***************************************************************************)
NoUuid == << >>

NoResponse ==
    [status |-> 0, error |-> "", detailsType |-> "undefined", details |-> << >>,
     success |-> FALSE, order_id |-> JUndef, assembly_id |-> NoUuid,
     message |-> "", sqs_message_id |-> 0]

\* Variant: details is left undefined, so JSON.stringify drops the field.
ErrorResponseNoDetails(status, error, details) ==
    [NoResponse EXCEPT !.status = status, !.error = error]

\* res.status(status).json({ error, details }) with a string for details
ErrorResponse(status, error, details) ==
    [NoResponse EXCEPT !.status = status, !.error = error,
                       !.detailsType = "string", !.details = <<details>>]

\* res.status(400).json({ error: 'Validation failed', details: validationErrors })
ValidationResponse(validationErrors) ==
    [NoResponse EXCEPT !.status = 400, !.error = "Validation failed",
                       !.detailsType = "array", !.details = validationErrors]

\* Variant: the success response is built without the queue's MessageId.
SuccessResponseWithoutReceipt(order_id, assembly_id, sqs_message_id) ==
    [NoResponse EXCEPT !.status = 200, !.success = TRUE, !.order_id = order_id,
                       !.assembly_id = assembly_id,
                       !.message = "Order assembled and published successfully"]

\* res.status(200).json({ success: true, order_id, assembly_id, message, sqs_message_id })
SuccessResponse(order_id, assembly_id, sqs_message_id) ==
    [NoResponse EXCEPT !.status = 200, !.success = TRUE, !.order_id = order_id,
                       !.assembly_id = assembly_id,
                       !.message = "Order assembled and published successfully",
                       !.sqs_message_id = sqs_message_id]

\* GET /health: nothing sent yet, and
\* res.status(200).json({ status, service, timestamp: new Date().toISOString(), version })
NoHealth ==
    [status |-> 0,
     body |-> [status |-> "", service |-> "", timestamp |-> -1, version |-> ""]]

HealthResponse(time) ==
    [status |-> 200,
     body |-> [status |-> "healthy", service |-> "order-assembly-service",
               timestamp |-> time, version |-> "1.0.0"]]

MissingKeyDetails == "API key is required. Provide it in the X-API-Key header."
InvalidKeyDetails == "Invalid API key provided."
ExpiredKeyDetails == "API key has expired."

(***************************************************************************)
(* authenticateApiKey, as a function of the x-api-key header (undefined    *)
(* when absent) and of the clock.  consulted tells whether the credential  *)
(* table was read.                                                         *)
(***************************************************************************)
AuthKeyData(apiKey) == KeyLookup(apiKey.s)

\* Variant: only an absent header counts as missing (apiKey === undefined); an
\* empty one is looked up in the table.
authenticateApiKeyUndefinedOnly(apiKey, time) ==
    IF apiKey.t = "undefined"
    THEN [next |-> FALSE, consulted |-> FALSE, apiKeyInfo |-> "",
          res |-> ErrorResponse(401, "Unauthorized", MissingKeyDetails)]
    ELSE IF ~AuthKeyData(apiKey).found
    THEN [next |-> FALSE, consulted |-> TRUE, apiKeyInfo |-> "",
          res |-> ErrorResponse(401, "Unauthorized", InvalidKeyDetails)]
    ELSE IF KeyExpired(AuthKeyData(apiKey), time)
    THEN [next |-> FALSE, consulted |-> TRUE, apiKeyInfo |-> "",
          res |-> ErrorResponse(401, "Unauthorized", ExpiredKeyDetails)]
    ELSE [next |-> TRUE, consulted |-> TRUE,
          apiKeyInfo |-> AuthKeyData(apiKey).name, res |-> NoResponse]

authenticateApiKey(apiKey, time) ==
    IF ~Truthy(apiKey)
    THEN [next |-> FALSE, consulted |-> FALSE, apiKeyInfo |-> "",
          res |-> ErrorResponse(401, "Unauthorized", MissingKeyDetails)]
    ELSE IF ~AuthKeyData(apiKey).found
    THEN [next |-> FALSE, consulted |-> TRUE, apiKeyInfo |-> "",
          res |-> ErrorResponse(401, "Unauthorized", InvalidKeyDetails)]
    ELSE IF KeyExpired(AuthKeyData(apiKey), time)
    THEN [next |-> FALSE, consulted |-> TRUE, apiKeyInfo |-> "",
          res |-> ErrorResponse(401, "Unauthorized", ExpiredKeyDetails)]
    ELSE [next |-> TRUE, consulted |-> TRUE,
          apiKeyInfo |-> AuthKeyData(apiKey).name, res |-> NoResponse]

(***************************************************************************)
(* Order payloads.  items is [t, a]: t is "array" with elements a, or the  *)
(* tag of a non-array value.  An element is an object with sku and         *)
(* quantity, or null.                                                      *)
(***************************************************************************)
Item(sku, quantity) == [t |-> "object", sku |-> sku, quantity |-> quantity]
NullItem == [t |-> "null", sku |-> JUndef, quantity |-> JUndef]

ItemsArray(a) == [t |-> "array", a |-> a]
ItemsUndef == [t |-> "undefined", a |-> << >>]

Payload(order_id, customer_id, items, order_ts) ==
    [order_id |-> order_id, customer_id |-> customer_id, items |-> items,
     order_ts |-> order_ts]

\* The body express.json() leaves when there is nothing to parse: {}.
EmptyPayload == Payload(JUndef, JUndef, ItemsUndef, JUndef)

\* new Date(s).getTime() is not NaN
ParseableTimestamps == {"2025-01-31T10:00:00Z", "2025-01-31T10:12:33Z"}
IsValidDate(s) == s \in ParseableTimestamps

RECURSIVE ItemErrorsFrom(_, _)
\* payload.items.forEach((item, index) => ...), from 1-based position i on
ItemErrorsFrom(a, i) ==
    IF i > Len(a) THEN << >>
    ELSE (IF ~Truthy(a[i].sku) \/ ~IsString(a[i].sku)
          THEN << "items[" \o ToString(i - 1) \o "].sku is required and must be a string" >>
          ELSE << >>)
         \o (IF a[i].quantity.t # "number" \/ LeqZero(a[i].quantity)
             THEN << "items[" \o ToString(i - 1) \o "].quantity must be a number greater than 0" >>
             ELSE << >>)
         \o ItemErrorsFrom(a, i + 1)

\* Reading item.sku of a null element raises a TypeError.
ItemsThrow(items) ==
    items.t = "array" /\ \E i \in 1..Len(items.a) : items.a[i].t = "null"

\* !payload.items || !Array.isArray(payload.items) || payload.items.length === 0
ItemsMissing(items) == items.t # "array" \/ Len(items.a) = 0

TypeErrorMessage == "Cannot read properties of null (reading 'sku')"

\* validateOrderPayload(payload): threw = TRUE when forEach raised a TypeError,
\* otherwise errors is the returned list.
validateOrderPayload(payload) ==
    IF ItemsThrow(payload.items)
    THEN [threw |-> TRUE, errors |-> << >>]
    ELSE [threw |-> FALSE,
          errors |->
            (IF ~Truthy(payload.order_id) \/ ~IsString(payload.order_id)
             THEN << "order_id is required and must be a string" >> ELSE << >>)
            \o (IF ~Truthy(payload.customer_id) \/ ~IsString(payload.customer_id)
                THEN << "customer_id is required and must be a string" >> ELSE << >>)
            \o (IF ItemsMissing(payload.items)
                THEN << "items is required and must be a non-empty array" >> ELSE << >>)
            \o (IF payload.items.t = "array"
                THEN ItemErrorsFrom(payload.items.a, 1) ELSE << >>)
            \o (IF ~Truthy(payload.order_ts) \/ ~IsString(payload.order_ts)
                THEN << "order_ts is required and must be a valid ISO 8601 timestamp" >>
                ELSE IF ~IsValidDate(payload.order_ts.s)
                     THEN << "order_ts must be a valid ISO 8601 timestamp" >>
                     ELSE << >>)]

(***************************************************************************)
(* uuidv4(): 16 random bytes, the version and variant bits forced, then    *)
(* rendered as 8-4-4-4-12 lower-case hex digits.  A text is a sequence of  *)
(* one-character strings.                                                  *)
(***************************************************************************)
HexDigits == << "0", "1", "2", "3", "4", "5", "6", "7",
                "8", "9", "a", "b", "c", "d", "e", "f" >>

\* byteToHex[b]
ByteToHex(b) == << HexDigits[(b \div 16) + 1], HexDigits[(b % 16) + 1] >>

RECURSIVE HexOfBytes(_, _, _)
\* the hex digits of bytes[from..to]
HexOfBytes(bytes, from, to) ==
    IF from > to THEN << >>
    ELSE ByteToHex(bytes[from]) \o HexOfBytes(bytes, from + 1, to)

\* rnds[6] = (rnds[6] & 0x0f) | 0x40;  rnds[8] = (rnds[8] & 0x3f) | 0x80
\* (positions are 1-based here)
SetVersionBits(rnds) ==
    [rnds EXCEPT ![7] = (rnds[7] % 16) + 64, ![9] = (rnds[9] % 64) + 128]

UuidStringify(bytes) ==
    HexOfBytes(bytes, 1, 4) \o << "-" >> \o HexOfBytes(bytes, 5, 6) \o << "-" >>
    \o HexOfBytes(bytes, 7, 8) \o << "-" >> \o HexOfBytes(bytes, 9, 10) \o << "-" >>
    \o HexOfBytes(bytes, 11, 16)

\* Variant: the random bytes are rendered without forcing version and variant.
uuidv4Unversioned(rnds) == UuidStringify(rnds)

uuidv4(rnds) == UuidStringify(SetVersionBits(rnds))

\* The 16 bytes the random source hands out at its k-th draw.  No two draws
\* give the same bytes: the source is taken to be collision-free.
Rnds(k) == [i \in 1..16 |-> (k * 53 + i * 29) % 256]

(***************************************************************************)
(* Card Catalog: GET /catalog/sku/{sku} with a 5 s timeout.  A lookup is   *)
(* answered with the metadata of a known SKU or with 404, or it fails      *)
(* because the service is down or too slow; message is error.message.      *)
(***************************************************************************)
CatalogSkus == {"SKU100", "SKU200"}

MetadataOf(sku) ==
    IF sku = "SKU100" THEN "Premium Widget Metadata" ELSE "Standard Gadget Metadata"

\* Variant: axios.get is called without its timeout option, so a lookup is
\* never cut off.
CatalogRepliesNoTimeout(sku) ==
    (IF sku \in CatalogSkus
     THEN {[ok |-> TRUE, data |-> MetadataOf(sku), message |-> ""]}
     ELSE {[ok |-> FALSE, data |-> "",
            message |-> "Request failed with status code 404"]})
    \cup {[ok |-> FALSE, data |-> "", message |-> "connect ECONNREFUSED"]}

CatalogReplies(sku) ==
    (IF sku \in CatalogSkus
     THEN {[ok |-> TRUE, data |-> MetadataOf(sku), message |-> ""]}
     ELSE {[ok |-> FALSE, data |-> "",
            message |-> "Request failed with status code 404"]})
    \cup {[ok |-> FALSE, data |-> "", message |-> "connect ECONNREFUSED"],
          [ok |-> FALSE, data |-> "", message |-> "timeout of 5000ms exceeded"]}

\* Every answer the catalog can give.
AllCatalogReplies == UNION { CatalogReplies(s) : s \in CatalogSkus \cup {"INVALID_SKU"} }

\* enrichedItems.push({ sku, quantity, metadata: response.data })
EnrichedItem(item, data) ==
    [sku |-> item.sku, quantity |-> item.quantity, metadata |-> data]

\* Variant: the status of the catalog's answer is passed on (404 for a SKU
\* that is not found) instead of 502.
EnrichmentErrorUpstreamStatus(item, cause) ==
    [status |-> IF cause = "Request failed with status code 404" THEN 404 ELSE 502,
     message |-> "Failed to enrich item with SKU " \o item.sku.s,
     details |-> cause]

\* throw { status: 502, message: `Failed to enrich item with SKU ${item.sku}`, details }
EnrichmentError(item, cause) ==
    [status |-> 502, message |-> "Failed to enrich item with SKU " \o item.sku.s,
     details |-> cause]

(***************************************************************************)
(* The enriched order and its SQS message.                                 *)
(***************************************************************************)
NoOrder ==
    [order_id |-> JUndef, customer_id |-> JUndef, items |-> << >>,
     order_ts |-> JUndef, assembled_ts |-> 0, assembly_id |-> NoUuid]

\* Variant: the assembly_id is generated once and shared by every order.
EnrichedOrderSharedId(payload, enrichedItems, time, rnds) ==
    [order_id |-> payload.order_id, customer_id |-> payload.customer_id,
     items |-> enrichedItems, order_ts |-> payload.order_ts,
     assembled_ts |-> time, assembly_id |-> UuidStringify(SetVersionBits(Rnds(1)))]

\* const enrichedOrder = { order_id, customer_id, items: enrichedItems, order_ts,
\*                         assembled_ts: new Date().toISOString(), assembly_id: uuidv4() }
EnrichedOrder(payload, enrichedItems, time, rnds) ==
    [order_id |-> payload.order_id, customer_id |-> payload.customer_id,
     items |-> enrichedItems, order_ts |-> payload.order_ts,
     assembled_ts |-> time, assembly_id |-> uuidv4(rnds)]

\* JSON.stringify(order): the properties in insertion order, as key/value pairs.
JSONstringify(order) ==
    << [key |-> "order_id", val |-> order.order_id],
       [key |-> "customer_id", val |-> order.customer_id],
       [key |-> "items", val |-> order.items],
       [key |-> "order_ts", val |-> order.order_ts],
       [key |-> "assembled_ts", val |-> order.assembled_ts],
       [key |-> "assembly_id", val |-> order.assembly_id] >>

\* The keys of a serialized body, and the value stored under one of them.
JSONkeys(body) == { body[i].key : i \in 1..Len(body) }
JSONget(body, key) == body[CHOOSE i \in 1..Len(body) : body[i].key = key].val

\* Variant: the customer_id attribute is left out of MessageAttributes.
SendMessageParamsNoCustomer(order) ==
    [MessageBody |-> JSONstringify(order),
     MessageAttributes |-> [order_id |-> order.order_id.s]]

\* params of sqs.sendMessage
SendMessageParams(order) ==
    [MessageBody |-> JSONstringify(order),
     MessageAttributes |-> [order_id |-> order.order_id.s,
                            customer_id |-> order.customer_id.s]]

\* What the queue transport can answer to a send: it accepts the message, or
\* it raises an error (message is error.message) and stores nothing.
SendErrors == {"connect ECONNREFUSED", "Connection timed out after 120000ms",
               "The specified queue does not exist."}
SendReplies == {[ok |-> TRUE, message |-> ""]}
               \cup {[ok |-> FALSE, message |-> m] : m \in SendErrors}

\* Variant: the error of sendMessage is rethrown as it is, without status,
\* under its own message.
PublishErrorRethrown(cause) ==
    [status |-> 500, message |-> cause, details |-> cause]

\* Variant: a failed send is reported as a fault of the request, status 400.
PublishErrorBadRequest(cause) ==
    [status |-> 400, message |-> "Failed to publish order to queue", details |-> cause]

\* throw { status: 503, message: 'Failed to publish order to queue', details }
PublishError(cause) ==
    [status |-> 503, message |-> "Failed to publish order to queue", details |-> cause]

(***************************************************************************)
(* Invocations.                                                            *)
(***************************************************************************)
IdleReq ==
    [pc |-> "idle", apiKey |-> JUndef, bodyKind |-> "json", payload |-> EmptyPayload,
     consulted |-> FALSE, apiKeyInfo |-> "", authAt |-> -1,
     enrichedItems |-> << >>,
     enrichedOrder |-> NoOrder, res |-> NoResponse, stages |-> << >>,
     lookups |-> << >>, sends |-> 0, sent |-> 0]

\* waitForMessage before it is called.  A poll is a record of the time it
\* started, the time its callback ran (-1 while it is in flight), whether
\* receiveMessage resolved, and the messages it resolved with.
IdleWait ==
    [pc |-> "idle", startTime |-> 0, timeout |-> 0, pollInterval |-> 0,
     clock |-> 0, polls |-> << >>, wakeAt |-> 0, result |-> "", error |-> ""]

\* setup.sh before its first command.  status is -1 while the script runs.
Services == << "WireMock", "LocalStack", "Order Assembly Service" >>
SetupStart ==
    [pc |-> "docker", service |-> 0, i |-> 0, out |-> << >>, status |-> -1,
     probes |-> [s \in 1..3 |-> 0], curl |-> 0]

Init ==
    /\ req = [r \in Reqs |-> IdleReq]
    /\ queue = << >>
    /\ now = 0
    /\ drawn = 0
    /\ validApiKeys = VALID_API_KEYS
    /\ health = NoHealth
    /\ defaultApiKey = "sk-test-valid-key-123456789"
    /\ lastKeyCall = "none"
    /\ commands = << >>
    /\ delivered = 0
    /\ wait = IdleWait
    /\ setup = SetupStart

\* The clock advances.
Tick ==
    /\ now < MaxTime
    /\ now' = now + 1
    /\ UNCHANGED << req, queue, drawn, validApiKeys, health, helperVars >>

\* res.status(..).json(..): the response of invocation r is sent, the handler ends.
Respond(r, current, res) ==
    [current EXCEPT !.pc = "done", !.res = res,
                    !.stages = current.stages \o << "respond" >>,
                    !.sent = current.sent + 1]

\* Variant: the parse error is swallowed and the request goes on with the
\* empty body {}.
ReceiveIgnoresParseError(r, apiKey, bodyKind, payload) ==
    /\ req[r].pc = "idle"
    /\ req' = [req EXCEPT ![r] =
                 [@ EXCEPT !.apiKey = apiKey, !.bodyKind = bodyKind,
                           !.payload = payload, !.pc = "auth"]]
    /\ UNCHANGED << queue, now, drawn, validApiKeys, health, helperVars >>

\* A request arrives with a body sent as application/json and express.json()
\* reads it.  A body that is not JSON makes the parser call next(err): the
\* error-handling middleware answers 500.  Otherwise the parsed body goes on
\* to authenticateApiKey.
Receive(r, apiKey, bodyKind, payload) ==
    /\ req[r].pc = "idle"
    /\ LET arrived == [req[r] EXCEPT !.apiKey = apiKey, !.bodyKind = bodyKind,
                                     !.payload = payload]
       IN req' = [req EXCEPT ![r] =
                    IF bodyKind = "malformed"
                    THEN Respond(r, arrived,
                                 ErrorResponse(500, "Internal server error",
                                               "Unexpected token i in JSON at position 0"))
                    ELSE [arrived EXCEPT !.pc = "auth"]]
    /\ UNCHANGED << queue, now, drawn, validApiKeys, health, helperVars >>

\* Variant: the 401 branches lack their return, so next() is called as well.
AuthenticateNoReturn(r) ==
    /\ req[r].pc = "auth"
    /\ LET a == authenticateApiKey(req[r].apiKey, now)
           entered == [req[r] EXCEPT !.stages = @ \o << "authenticate" >>,
                                     !.consulted = a.consulted,
                                     !.apiKeyInfo = a.apiKeyInfo,
                                     !.authAt = now]
       IN req' = [req EXCEPT ![r] =
                    IF a.next THEN [entered EXCEPT !.pc = "validate"]
                    ELSE [Respond(r, entered, a.res) EXCEPT !.pc = "validate"]]
    /\ UNCHANGED << queue, now, drawn, validApiKeys, health, helperVars >>

\* Variant: the credential found is kept in a module-level 'current
\* credential', which every request in flight reads as its apiKeyInfo.
AuthenticateCurrentCredential(r) ==
    /\ req[r].pc = "auth"
    /\ LET a == authenticateApiKey(req[r].apiKey, now)
           entered == [req[r] EXCEPT !.stages = @ \o << "authenticate" >>,
                                     !.consulted = a.consulted,
                                     !.apiKeyInfo = a.apiKeyInfo,
                                     !.authAt = now]
       IN req' = [q \in Reqs |->
                    IF q = r
                    THEN (IF a.next THEN [entered EXCEPT !.pc = "validate"]
                          ELSE Respond(r, entered, a.res))
                    ELSE IF a.next /\ req[q].apiKeyInfo # ""
                         THEN [req[q] EXCEPT !.apiKeyInfo = a.apiKeyInfo]
                         ELSE req[q]]
    /\ UNCHANGED << queue, now, drawn, validApiKeys, health, helperVars >>

\* Variant: a credential found expired is deleted from VALID_API_KEYS.
AuthenticateDropsExpired(r) ==
    /\ req[r].pc = "auth"
    /\ LET a == authenticateApiKey(req[r].apiKey, now)
           entered == [req[r] EXCEPT !.stages = @ \o << "authenticate" >>,
                                     !.consulted = a.consulted,
                                     !.apiKeyInfo = a.apiKeyInfo,
                                     !.authAt = now]
       IN /\ req' = [req EXCEPT ![r] =
                    IF a.next THEN [entered EXCEPT !.pc = "validate"]
                    ELSE Respond(r, entered, a.res)]
          /\ validApiKeys' =
                IF ~a.next /\ a.res.details = << ExpiredKeyDetails >>
                THEN [k \in (DOMAIN validApiKeys) \ {req[r].apiKey.s} |-> validApiKeys[k]]
                ELSE validApiKeys
    /\ UNCHANGED << queue, now, drawn, health, helperVars >>

\* The authenticateApiKey middleware.
Authenticate(r) ==
    /\ req[r].pc = "auth"
    /\ LET a == authenticateApiKey(req[r].apiKey, now)
           entered == [req[r] EXCEPT !.stages = @ \o << "authenticate" >>,
                                     !.consulted = a.consulted,
                                     !.apiKeyInfo = a.apiKeyInfo,
                                     !.authAt = now]
       IN req' = [req EXCEPT ![r] =
                    IF a.next THEN [entered EXCEPT !.pc = "validate"]
                    ELSE Respond(r, entered, a.res)]
    /\ UNCHANGED << queue, now, drawn, validApiKeys, health, helperVars >>

\* Variant: the handler has no outer try/catch, so an exception raised by
\* validation ends it without a response.
ValidateUncaught(r) ==
    /\ req[r].pc = "validate"
    /\ LET v == validateOrderPayload(req[r].payload)
           entered == [req[r] EXCEPT !.stages = @ \o << "validate" >>]
       IN req' = [req EXCEPT ![r] =
                    IF v.threw
                    THEN [entered EXCEPT !.pc = "unhandled"]
                    ELSE IF Len(v.errors) > 0
                    THEN Respond(r, entered, ValidationResponse(v.errors))
                    ELSE [entered EXCEPT !.pc = "enrich",
                                         !.stages = @ \o << "enrich" >>]]
    /\ UNCHANGED << queue, now, drawn, validApiKeys, health, helperVars >>

\* The route handler up to its first await: step 1 (validation) and, when the
\* payload is valid, the call of enrichOrderWithMetadata, which issues the
\* lookup of the first item.
Validate(r) ==
    /\ req[r].pc = "validate"
    /\ LET v == validateOrderPayload(req[r].payload)
           entered == [req[r] EXCEPT !.stages = @ \o << "validate" >>]
       IN req' = [req EXCEPT ![r] =
                    IF v.threw
                    THEN Respond(r, entered,
                                 ErrorResponse(500, "Internal server error",
                                               TypeErrorMessage))
                    ELSE IF Len(v.errors) > 0
                    THEN Respond(r, entered, ValidationResponse(v.errors))
                    ELSE [entered EXCEPT !.pc = "enrich",
                                         !.stages = @ \o << "enrich" >>]]
    /\ UNCHANGED << queue, now, drawn, validApiKeys, health, helperVars >>

\* An answered lookup: the SKU asked for and the catalog's answer.
Lookup(sku, reply) == [sku |-> sku, ok |-> reply.ok, message |-> reply.message]

\* Variant: a failed lookup is logged and the loop is left (break instead of
\* throw), so the items enriched so far are returned.
LookupReplySkipsFailure(r, reply) ==
    /\ req[r].pc = "enrich"
    /\ LET items == req[r].payload.items.a
           item == items[Len(req[r].enrichedItems) + 1]
           answered == [req[r] EXCEPT !.lookups =
                            Append(@, Lookup(item.sku.s, reply))]
       IN /\ reply \in CatalogReplies(item.sku.s)
          /\ req' = [req EXCEPT ![r] =
                IF ~reply.ok
                THEN [answered EXCEPT !.pc = "assemble"]
                ELSE LET pushed == Append(req[r].enrichedItems,
                                          EnrichedItem(item, reply.data))
                     IN [answered EXCEPT !.enrichedItems = pushed,
                                       !.pc = IF Len(pushed) = Len(items)
                                              THEN "assemble" ELSE "enrich"]]
    /\ UNCHANGED << queue, now, drawn, validApiKeys, health, helperVars >>

\* Variant: the error of a failed lookup is built from items[0], not from the
\* item whose lookup failed.
LookupReplyNamesFirstItem(r, reply) ==
    /\ req[r].pc = "enrich"
    /\ LET items == req[r].payload.items.a
           item == items[Len(req[r].enrichedItems) + 1]
           answered == [req[r] EXCEPT !.lookups =
                            Append(@, Lookup(item.sku.s, reply))]
       IN /\ reply \in CatalogReplies(item.sku.s)
          /\ req' = [req EXCEPT ![r] =
                IF ~reply.ok
                THEN LET error == EnrichmentError(items[1], reply.message)
                     IN Respond(r, answered,
                                ErrorResponse(error.status, error.message, error.details))
                ELSE LET pushed == Append(req[r].enrichedItems,
                                          EnrichedItem(item, reply.data))
                     IN [answered EXCEPT !.enrichedItems = pushed,
                                         !.pc = IF Len(pushed) = Len(items)
                                                THEN "assemble" ELSE "enrich"]]
    /\ UNCHANGED << queue, now, drawn, validApiKeys, health, helperVars >>

\* Variant: the first failed lookup of an invocation is not thrown but issued
\* again.
LookupReplyRetries(r, reply) ==
    /\ req[r].pc = "enrich"
    /\ LET items == req[r].payload.items.a
           item == items[Len(req[r].enrichedItems) + 1]
           answered == [req[r] EXCEPT !.lookups =
                            Append(@, Lookup(item.sku.s, reply))]
       IN /\ reply \in CatalogReplies(item.sku.s)
          /\ req' = [req EXCEPT ![r] =
                IF ~reply.ok /\ \A i \in 1..Len(req[r].lookups) : req[r].lookups[i].ok
                THEN answered
                ELSE IF ~reply.ok
                THEN LET error == EnrichmentError(item, reply.message)
                     IN Respond(r, answered,
                                ErrorResponse(error.status, error.message, error.details))
                ELSE LET pushed == Append(req[r].enrichedItems,
                                          EnrichedItem(item, reply.data))
                     IN [answered EXCEPT !.enrichedItems = pushed,
                                         !.pc = IF Len(pushed) = Len(items)
                                                THEN "assemble" ELSE "enrich"]]
    /\ UNCHANGED << queue, now, drawn, validApiKeys, health, helperVars >>

\* Variant: an enriched item is put in front of the list (unshift) instead of
\* at its end (push).
LookupReplyUnshift(r, reply) ==
    /\ req[r].pc = "enrich"
    /\ LET items == req[r].payload.items.a
           item == items[Len(req[r].enrichedItems) + 1]
           answered == [req[r] EXCEPT !.lookups =
                            Append(@, Lookup(item.sku.s, reply))]
       IN /\ reply \in CatalogReplies(item.sku.s)
          /\ req' = [req EXCEPT ![r] =
                IF ~reply.ok
                THEN LET error == EnrichmentError(item, reply.message)
                     IN Respond(r, answered,
                                ErrorResponse(error.status, error.message, error.details))
                ELSE LET pushed == << EnrichedItem(item, reply.data) >>
                                   \o req[r].enrichedItems
                     IN [answered EXCEPT !.enrichedItems = pushed,
                                         !.pc = IF Len(pushed) = Len(items)
                                                THEN "assemble" ELSE "enrich"]]
    /\ UNCHANGED << queue, now, drawn, validApiKeys, health, helperVars >>

\* enrichOrderWithMetadata: the lookup of the next item is answered.  A failure
\* is thrown as an enrichment error, which step 2 turns into the response; a
\* success is pushed and the next lookup is issued, or the list is returned.
LookupReply(r, reply) ==
    /\ req[r].pc = "enrich"
    /\ LET items == req[r].payload.items.a
           item == items[Len(req[r].enrichedItems) + 1]
           answered == [req[r] EXCEPT !.lookups =
                            Append(@, Lookup(item.sku.s, reply))]
       IN /\ reply \in CatalogReplies(item.sku.s)
          /\ req' = [req EXCEPT ![r] =
                IF ~reply.ok
                THEN LET error == EnrichmentError(item, reply.message)
                     IN Respond(r, answered,
                                ErrorResponse(error.status, error.message, error.details))
                ELSE LET pushed == Append(req[r].enrichedItems,
                                          EnrichedItem(item, reply.data))
                     IN [answered EXCEPT !.enrichedItems = pushed,
                                       !.pc = IF Len(pushed) = Len(items)
                                              THEN "assemble" ELSE "enrich"]]
    /\ UNCHANGED << queue, now, drawn, validApiKeys, health, helperVars >>

\* Variant: stamping the order raises an exception, which the outer catch
\* answers with 500 before anything is sent.
AssembleThrows(r) ==
    /\ req[r].pc = "assemble"
    /\ drawn' = drawn
    /\ req' = [req EXCEPT ![r] =
            Respond(r, [req[r] EXCEPT !.stages = @ \o << "assemble" >>],
                    ErrorResponse(500, "Internal server error", "uuidv4 is not a function"))]
    /\ UNCHANGED << queue, now, validApiKeys, health, helperVars >>

\* Step 3 and the start of step 4: the enriched order is stamped with the time
\* and a fresh uuid, and publishToSQS sends it.
Assemble(r) ==
    /\ req[r].pc = "assemble"
    /\ drawn' = drawn + 1
    /\ req' = [req EXCEPT ![r] =
            [@ EXCEPT !.enrichedOrder =
                          EnrichedOrder(req[r].payload, req[r].enrichedItems, now,
                                        Rnds(drawn + 1)),
                      !.stages = @ \o << "assemble", "publish" >>,
                      !.sends = @ + 1,
                      !.pc = "publish"]]
    /\ UNCHANGED << queue, now, validApiKeys, health, helperVars >>

\* The message the queue stores for an accepted send; by names the invocation.
QueueMessage(r, params, messageId) ==
    [MessageBody |-> params.MessageBody,
     MessageAttributes |-> params.MessageAttributes,
     MessageId |-> messageId, by |-> r]

\* Variant: the message is handed to the queue a second way before the error
\* of sendMessage is thrown, so it is stored although the answer is 503.
PublishReplyStoresOnError(r, reply) ==
    /\ req[r].pc = "publish"
    /\ reply \in SendReplies
    /\ LET messageId == Len(queue) + 1
       IN /\ queue' = Append(queue,
                  QueueMessage(r, SendMessageParams(req[r].enrichedOrder), messageId))
          /\ req' = [req EXCEPT ![r] =
                  IF reply.ok
                  THEN Respond(r, req[r],
                               SuccessResponse(req[r].payload.order_id,
                                               req[r].enrichedOrder.assembly_id,
                                               messageId))
                  ELSE LET error == PublishError(reply.message)
                       IN Respond(r, req[r],
                               ErrorResponse(error.status, error.message, error.details))]
    /\ UNCHANGED << now, drawn, validApiKeys, health, helperVars >>

\* Variant: the catch of step 4 lacks its return, so after the 503 step 5
\* sends the success response as well.
PublishReplyNoReturn(r, reply) ==
    /\ req[r].pc = "publish"
    /\ reply \in SendReplies
    /\ IF reply.ok
       THEN LET messageId == Len(queue) + 1
            IN /\ queue' = Append(queue,
                       QueueMessage(r, SendMessageParams(req[r].enrichedOrder), messageId))
               /\ req' = [req EXCEPT ![r] =
                       Respond(r, req[r],
                               SuccessResponse(req[r].payload.order_id,
                                               req[r].enrichedOrder.assembly_id,
                                               messageId))]
       ELSE LET error == PublishError(reply.message)
                failed == Respond(r, req[r],
                               ErrorResponse(error.status, error.message, error.details))
            IN /\ queue' = queue
               /\ req' = [req EXCEPT ![r] =
                       Respond(r, failed,
                               SuccessResponse(req[r].payload.order_id,
                                               req[r].enrichedOrder.assembly_id, 0))]
    /\ UNCHANGED << now, drawn, validApiKeys, health, helperVars >>

\* publishToSQS: sendMessage is answered.  An accepted message is on the queue
\* and step 5 answers 200 with its MessageId; an error is thrown as a publish
\* error, which step 4 turns into the response.
PublishReply(r, reply) ==
    /\ req[r].pc = "publish"
    /\ reply \in SendReplies
    /\ IF reply.ok
       THEN LET messageId == Len(queue) + 1
            IN /\ queue' = Append(queue,
                       QueueMessage(r, SendMessageParams(req[r].enrichedOrder), messageId))
               /\ req' = [req EXCEPT ![r] =
                       Respond(r, req[r],
                               SuccessResponse(req[r].payload.order_id,
                                               req[r].enrichedOrder.assembly_id,
                                               messageId))]
       ELSE LET error == PublishError(reply.message)
            IN /\ queue' = queue
               /\ req' = [req EXCEPT ![r] =
                       Respond(r, req[r],
                               ErrorResponse(error.status, error.message, error.details))]
    /\ UNCHANGED << now, drawn, validApiKeys, health, helperVars >>

(***************************************************************************)
(* Inputs.                                                                 *)
(***************************************************************************)
ValidKey == "sk-test-valid-key-123456789"
LimitedKey == "sk-test-limited-key-987654321"

\* x-api-key headers: absent, empty, the stored keys, a stored key in upper
\* case, a name every object inherits.
HeaderKeys ==
    {JUndef, JStr(""), JStr(ValidKey), JStr(LimitedKey),
     JStr("SK-TEST-VALID-KEY-123456789"), JStr("constructor")}

ValidTs == JStr("2025-01-31T10:00:00Z")

Sku100 == Item(JStr("SKU100"), JNum(2))
Sku200 == Item(JStr("SKU200"), JNum(1))
InvalidSku == Item(JStr("INVALID_SKU"), JNum(1))

\* The payloads of the pipeline specification: valid orders of one and two
\* items, orders with an unresolvable SKU in first and in second place, and
\* orders that break a validation rule (no order_id, no items, a null item).
PipelineItems ==
    {ItemsArray(<< Sku100 >>), ItemsArray(<< Sku100, Sku200 >>),
     ItemsArray(<< Sku100, InvalidSku >>), ItemsArray(<< InvalidSku, Sku100 >>),
     ItemsArray(<< >>), ItemsArray(<< NullItem >>)}

PipelinePayloads ==
    { Payload(JStr("O1"), JStr("C1"), i, ValidTs) : i \in PipelineItems }
    \cup { Payload(JUndef, JStr("C1"), ItemsArray(<< Sku100 >>), ValidTs) }

\* Once the response is sent the handler's request and locals are released;
\* what stays is what the client keeps of the response: its status and the
\* identifiers it carries.
Close(r) ==
    /\ req[r].pc = "done"
    /\ req' = [req EXCEPT ![r] =
            [IdleReq EXCEPT !.pc = "closed",
                            !.res = [NoResponse EXCEPT
                                        !.status = req[r].res.status,
                                        !.assembly_id = req[r].res.assembly_id,
                                        !.sqs_message_id = req[r].res.sqs_message_id]]]
    /\ UNCHANGED << queue, now, drawn, validApiKeys, health, helperVars >>

\* The client of the pipeline specification sends its requests one after the
\* other, each after the response to the one before.
OneAtATime(r) == \A q \in Reqs : q < r => req[q].pc = "closed"

Next ==
    \/ Tick
    \/ \E r \in Reqs :
          /\ req[r].pc = "idle" /\ OneAtATime(r)
          /\ \E k \in HeaderKeys, p \in PipelinePayloads : Receive(r, k, "json", p)
    \/ \E r \in Reqs :
          /\ req[r].pc = "idle" /\ OneAtATime(r)
          /\ \E k \in HeaderKeys : Receive(r, k, "malformed", EmptyPayload)
    \/ \E r \in Reqs : Authenticate(r)
    \/ \E r \in Reqs : Validate(r)
    \/ \E r \in Reqs :
          /\ req[r].pc = "enrich"
          /\ \E reply \in AllCatalogReplies : LookupReply(r, reply)
    \/ \E r \in Reqs : Assemble(r)
    \/ \E r \in Reqs, reply \in SendReplies : PublishReply(r, reply)
    \/ \E r \in Reqs : Close(r)

Spec == Init /\ [][Next]_vars

(***************************************************************************)
(* The health specification: GET /health is called at any time, between    *)
(* the steps of the pipeline.                                              *)
(***************************************************************************)
\* Variant: the route is registered behind authenticateApiKey, so a call
\* without an accepted key is answered 401.
HealthBehindAuth(apiKey) ==
    /\ health' = IF authenticateApiKey(apiKey, now).next
                 THEN HealthResponse(now)
                 ELSE [NoHealth EXCEPT !.status = 401]
    /\ UNCHANGED << req, queue, now, drawn, validApiKeys, helperVars >>

\* app.get('/health', ...): the handler reads nothing of the request.
Health(apiKey) ==
    /\ health' = HealthResponse(now)
    /\ UNCHANGED << req, queue, now, drawn, validApiKeys, helperVars >>

NextHealth ==
    \/ Next
    \/ \E k \in HeaderKeys : Health(k)

SpecHealth == Init /\ [][NextHealth]_vars

(***************************************************************************)
(* The concurrent specification: the requests are all in flight at once    *)
(* and their steps interleave freely.  Request r carries an order of its   *)
(* own, O<r> of customer C<r>.                                             *)
(***************************************************************************)
ConcKeys == {JStr(ValidKey), JStr(LimitedKey)}

ConcPayloads(r) ==
    { Payload(JStr("O" \o ToString(r)), JStr("C" \o ToString(r)), ItemsArray(a), ValidTs) :
        a \in {<< Sku100 >>, << Sku200, Sku100 >>} }

NextConc ==
    \/ \E r \in Reqs :
          /\ req[r].pc = "idle"
          /\ \E k \in ConcKeys, p \in ConcPayloads(r) : Receive(r, k, "json", p)
    \/ \E r \in Reqs : Authenticate(r)
    \/ \E r \in Reqs : Validate(r)
    \/ \E r \in Reqs :
          /\ req[r].pc = "enrich"
          /\ \E reply \in AllCatalogReplies : LookupReply(r, reply)
    \/ \E r \in Reqs : Assemble(r)
    \/ \E r \in Reqs, reply \in SendReplies : PublishReply(r, reply)

SpecConc == Init /\ [][NextConc]_vars

(***************************************************************************)
(* Progress.  The event loop runs every handler that is ready.  A remote   *)
(* call may stay unanswered, but its timer fires: axios cuts a lookup off  *)
(* after 5000 ms, the SQS client cuts a send off after its own timeout.    *)
(***************************************************************************)
LookupTimeout(r) ==
    LookupReply(r, [ok |-> FALSE, data |-> "", message |-> "timeout of 5000ms exceeded"])

SendTimeout(r) ==
    PublishReply(r, [ok |-> FALSE, message |-> "Connection timed out after 120000ms"])

Fairness ==
    \A r \in Reqs :
        /\ WF_vars(Authenticate(r))
        /\ WF_vars(Validate(r))
        /\ WF_vars(LookupTimeout(r))
        /\ WF_vars(Assemble(r))
        /\ WF_vars(SendTimeout(r))

SpecLive == Init /\ [][Next]_vars /\ Fairness

(***************************************************************************)
(* The validation specification: one invocation, its payload drawn from    *)
(* every combination of field values, well-formed or not.                  *)
(***************************************************************************)
OrderIdValues == {JStr("O1"), JUndef, JStr(""), JNum(7)}
CustomerIdValues == {JStr("C1"), JUndef, JStr("")}
OrderTsValues == {ValidTs, JUndef, JStr("not-a-date"), JNum(5)}

ItemValues ==
    {Sku100, InvalidSku, Item(JUndef, JNum(1)), Item(JStr("SKU100"), JNum(0)),
     Item(JStr("SKU100"), JNum(-1)), Item(JStr("SKU100"), JStr("2")),
     Item(JStr("SKU100"), JFrac(1, 5)), NullItem}

ItemSeqs == UNION { [1..n -> ItemValues] : n \in 0..MaxItems }

ItemsValues ==
    { ItemsArray(a) : a \in ItemSeqs } \cup {ItemsUndef, [t |-> "string", a |-> << >>]}

WidePayloads ==
    { Payload(o, c, i, ts) : o \in OrderIdValues, c \in CustomerIdValues,
                             i \in ItemsValues, ts \in OrderTsValues }

WideKeys == {JUndef, JStr(ValidKey), JStr(LimitedKey)}

NextWide ==
    \/ Tick
    \/ /\ req[1].pc = "idle"
       /\ \E k \in WideKeys, p \in WidePayloads : Receive(1, k, "json", p)
    \/ /\ req[1].pc = "idle"
       /\ \E k \in WideKeys : Receive(1, k, "malformed", EmptyPayload)
    \/ Authenticate(1)
    \/ Validate(1)
    \/ /\ req[1].pc = "enrich"
       /\ \E reply \in AllCatalogReplies : LookupReply(1, reply)
    \/ Assemble(1)
    \/ \E reply \in SendReplies : PublishReply(1, reply)

SpecWide == Init /\ [][NextWide]_vars

(***************************************************************************)
(* Helpers of the properties.                                              *)
(***************************************************************************)
Live(r) == req[r].pc \notin {"idle", "closed"}
Done(r) == req[r].pc = "done"
Entered(r, stage) == \E i \in 1..Len(req[r].stages) : req[r].stages[i] = stage
PipelineOrder == << "authenticate", "validate", "enrich", "assemble", "publish" >>
MessagesBy(r) == { i \in 1..Len(queue) : queue[i].by = r }

\* The payload meets every rule of section 4.2 of the specification.
WellFormed(payload) ==
    /\ payload.order_id.t = "string" /\ payload.order_id.s # ""
    /\ payload.customer_id.t = "string" /\ payload.customer_id.s # ""
    /\ payload.items.t = "array" /\ Len(payload.items.a) > 0
    /\ \A i \in 1..Len(payload.items.a) :
          /\ payload.items.a[i].t = "object"
          /\ payload.items.a[i].sku.t = "string" /\ payload.items.a[i].sku.s # ""
          /\ payload.items.a[i].quantity.t = "number" /\ payload.items.a[i].quantity.n > 0
          /\ payload.items.a[i].quantity.f = 0
    /\ payload.order_ts.t = "string" /\ payload.order_ts.s \in ParseableTimestamps

\* 8-4-4-4-12 hex digits, version digit 4, variant digit 8, 9, a or b.
IsUuidText(text) ==
    /\ Len(text) = 36
    /\ \A i \in 1..36 :
          IF i \in {9, 14, 19, 24} THEN text[i] = "-"
          ELSE \E d \in 1..16 : text[i] = HexDigits[d]
    /\ text[15] = "4"
    /\ text[20] \in {"8", "9", "a", "b"}

\* The key of invocation r is absent, empty, or no identifier of a stored credential.
MissingOrUnknownKey(r) ==
    req[r].apiKey.t # "string" \/ req[r].apiKey.s = "" \/ req[r].apiKey.s \notin StoredKeys

\* The key of invocation r names a stored credential that was past its expiry
\* when authenticateApiKey read the clock.
ExpiredKeyAtAuth(r) ==
    /\ req[r].apiKey.t = "string" /\ req[r].apiKey.s \in StoredKeys
    /\ VALID_API_KEYS[req[r].apiKey.s].hasExpiry
    /\ req[r].authAt > VALID_API_KEYS[req[r].apiKey.s].expiresAt

(***************************************************************************)
(* C1: every request whose x-api-key is missing, unknown or expired is     *)
(* answered 401 and never reaches validation, whatever its body is         *)
(* (valid, invalid or not parseable).                                      *)
(***************************************************************************)
C1_AuthFailureNeverMasked ==
    \A r \in Reqs :
        (Live(r) /\ (MissingOrUnknownKey(r) \/ ExpiredKeyAtAuth(r)))
        => /\ ~Entered(r, "validate")
           /\ Done(r) => req[r].res.status = 401

(***************************************************************************)
(* C2: the stages of an invocation are entered in the fixed order          *)
(* authenticate, validate, enrich, assemble, publish, each at most once    *)
(* and only after its predecessor succeeded; the response follows the      *)
(* stage that failed (401 authenticate, 400/500 validate, 502 enrich,      *)
(* 503 publish) or the publish stage on success, and nothing follows it.   *)
(***************************************************************************)
C2_StagesInFixedOrder ==
    \A r \in Reqs : Live(r) =>
        LET st == req[r].stages
            n == IF Done(r) THEN Len(st) - 1 ELSE Len(st)
        IN /\ n \in 0..5
           /\ \A i \in 1..n : st[i] = PipelineOrder[i]
           /\ Done(r) <=> (Len(st) > 0 /\ st[Len(st)] = "respond")
           /\ Done(r) =>
                 /\ req[r].res.status = 401 => n = 1
                 /\ req[r].res.status = 400 => n = 2
                 /\ req[r].res.status = 502 => n = 3
                 /\ req[r].res.status \in {503, 200} => n = 5
                 /\ n = 1 => req[r].res.status = 401
                 /\ n = 2 => req[r].res.status \in {400, 500}
                 /\ n = 3 => req[r].res.status = 502
                 /\ n # 4

C2_Witness ==
    \E r \in Reqs :
        /\ req[r].stages = << "authenticate", "validate", "enrich", "respond" >>
        /\ Len(req[r].enrichedItems) = 1
        /\ req[r].res.status = 502

(***************************************************************************)
(* C3 as stated: every valid order whose SKUs are all resolvable is        *)
(* answered 200 with the request's order_id and a UUID assembly_id.        *)
(***************************************************************************)
C3_ValidResolvableOrderSucceeds ==
    \A r \in Reqs :
        (Done(r) /\ req[r].bodyKind = "json" /\ WellFormed(req[r].payload)
         /\ \A i \in 1..Len(req[r].payload.items.a) :
               req[r].payload.items.a[i].sku.s \in CatalogSkus)
        => /\ req[r].res.status = 200
           /\ req[r].res.order_id = req[r].payload.order_id
           /\ IsUuidText(req[r].res.assembly_id)

(***************************************************************************)
(* C3 amended: a valid order sent with an accepted key, every lookup of    *)
(* which succeeded, reaches the publish stage; when the queue accepted     *)
(* its message the answer is 200 with the request's order_id and an        *)
(* assembly_id in UUID text form, otherwise it is 503.                     *)
(***************************************************************************)
C3_AcceptedOrderSucceeds ==
    \A r \in Reqs :
        (Done(r) /\ req[r].bodyKind = "json" /\ WellFormed(req[r].payload)
         /\ req[r].apiKeyInfo # ""
         /\ Len(req[r].enrichedItems) = Len(req[r].payload.items.a))
        => /\ Entered(r, "publish")
           /\ IF MessagesBy(r) # {}
              THEN /\ req[r].res.status = 200
                   /\ req[r].res.success
                   /\ req[r].res.order_id = req[r].payload.order_id
                   /\ IsUuidText(req[r].res.assembly_id)
              ELSE req[r].res.status = 503

C3_Witness ==
    \E r \in Reqs :
        /\ Done(r) /\ req[r].res.status = 200
        /\ Len(req[r].payload.items.a) = 2
        /\ MessagesBy(r) # {}

(***************************************************************************)
(* C4: a queue message holds every item of its request, in order, each     *)
(* with the metadata of a lookup that succeeded; an assembled order never  *)
(* holds a subset of the items, and an invocation one of whose lookups     *)
(* failed has no message on the queue.                                     *)
(***************************************************************************)
WholeOrder(items, payload) ==
    /\ Len(items) = Len(payload.items.a)
    /\ \A i \in 1..Len(items) :
          /\ items[i].sku = payload.items.a[i].sku
          /\ items[i].quantity = payload.items.a[i].quantity
          /\ items[i].sku.s \in CatalogSkus
          /\ items[i].metadata = MetadataOf(items[i].sku.s)

C4_NoPartialEnrichment ==
    /\ \A i \in 1..Len(queue) :
          /\ Len(JSONget(queue[i].MessageBody, "items")) > 0
          /\ \A j \in 1..Len(JSONget(queue[i].MessageBody, "items")) :
                JSONget(queue[i].MessageBody, "items")[j].sku.s \in CatalogSkus
          /\ Live(queue[i].by) =>
                WholeOrder(JSONget(queue[i].MessageBody, "items"), req[queue[i].by].payload)
    /\ \A r \in Reqs : Live(r) =>
          /\ req[r].enrichedOrder # NoOrder =>
                WholeOrder(req[r].enrichedOrder.items, req[r].payload)
          /\ req[r].res.status = 502 => MessagesBy(r) = {}

C4_Witness ==
    \E r \in Reqs :
        /\ Done(r) /\ req[r].res.status = 502
        /\ Len(req[r].enrichedItems) = 1
        /\ Len(req[r].payload.items.a) = 2
        /\ MessagesBy(r) = {}

(***************************************************************************)
(* C5: an invocation that ends with 503 has no message on the queue, and   *)
(* every message on the queue belongs to an invocation that ended in       *)
(* success (200).                                                          *)
(***************************************************************************)
C5_NothingQueuedOnPublishFailure ==
    /\ \A r \in Reqs : req[r].res.status = 503 => MessagesBy(r) = {}
    /\ \A i \in 1..Len(queue) :
          /\ req[queue[i].by].pc \in {"done", "closed"}
          /\ req[queue[i].by].res.status = 200

C5_Witness ==
    \E r \in Reqs :
        /\ Done(r) /\ req[r].res.status = 503
        /\ req[r].enrichedOrder # NoOrder
        /\ MessagesBy(r) = {}

(***************************************************************************)
(* C6: no two invocations receive or publish the same assembly_id: the     *)
(* ids of the queue messages differ pairwise, the ids returned to clients  *)
(* differ pairwise, and the id stamped on an order in flight differs from  *)
(* every id published or returned for another invocation.                  *)
(***************************************************************************)
AssemblyIdOf(i) == JSONget(queue[i].MessageBody, "assembly_id")

C6_FreshAssemblyIdPerInvocation ==
    /\ \A i, j \in 1..Len(queue) : i # j => AssemblyIdOf(i) # AssemblyIdOf(j)
    /\ \A r1, r2 \in Reqs :
          (r1 # r2 /\ req[r1].res.assembly_id # NoUuid /\ req[r2].res.assembly_id # NoUuid)
          => req[r1].res.assembly_id # req[r2].res.assembly_id
    /\ \A r \in Reqs : req[r].enrichedOrder # NoOrder =>
          /\ \A i \in 1..Len(queue) :
                queue[i].by # r => AssemblyIdOf(i) # req[r].enrichedOrder.assembly_id
          /\ \A q \in Reqs :
                q # r => req[q].res.assembly_id # req[r].enrichedOrder.assembly_id

\* Two invocations with the same order both succeeded.
C6_Witness ==
    /\ Len(queue) = 2
    /\ queue[1].by = 1 /\ queue[2].by = 2
    /\ queue[1].MessageAttributes = queue[2].MessageAttributes
    /\ JSONget(queue[1].MessageBody, "items") = JSONget(queue[2].MessageBody, "items")
    /\ JSONget(queue[1].MessageBody, "order_ts") = JSONget(queue[2].MessageBody, "order_ts")
    /\ req[1].res.status = 200 /\ req[2].res.status = 200
    /\ req[1].res.assembly_id # req[2].res.assembly_id

(***************************************************************************)
(* C7: every supplied key that is not the identifier of a stored           *)
(* credential is rejected by authenticateApiKey with 401 and details       *)
(* 'Invalid API key provided.'.                                            *)
(***************************************************************************)
C7_OnlyStoredKeysAccepted ==
    \A r \in Reqs :
        (Live(r) /\ req[r].authAt >= 0 /\ req[r].apiKey.t = "string"
         /\ req[r].apiKey.s # "" /\ req[r].apiKey.s \notin StoredKeys)
        => /\ Done(r)
           /\ req[r].res = ErrorResponse(401, "Unauthorized", "Invalid API key provided.")

(***************************************************************************)
(* C8: a key that names a stored credential is rejected with 401 and       *)
(* details 'API key has expired.' exactly when the credential has an       *)
(* expiry and the time read is strictly after it; otherwise the request    *)
(* is authenticated.                                                       *)
(***************************************************************************)
C8_ExpiredExactlyWhenPastExpiry ==
    \A r \in Reqs :
        (Live(r) /\ req[r].authAt >= 0 /\ req[r].apiKey.t = "string"
         /\ req[r].apiKey.s \in StoredKeys)
        => IF /\ VALID_API_KEYS[req[r].apiKey.s].hasExpiry
              /\ req[r].authAt > VALID_API_KEYS[req[r].apiKey.s].expiresAt
           THEN /\ Done(r)
                /\ req[r].res = ErrorResponse(401, "Unauthorized", "API key has expired.")
                /\ req[r].stages = << "authenticate", "respond" >>
           ELSE /\ req[r].apiKeyInfo = VALID_API_KEYS[req[r].apiKey.s].name
                /\ req[r].res.status # 401
                /\ Done(r) => Entered(r, "validate")

\* The limited key used at the very time of its expiry is authenticated.
C8_Witness ==
    \E r \in Reqs :
        /\ req[r].apiKey = JStr(LimitedKey)
        /\ req[r].authAt = LimitedKeyExpiresAt
        /\ req[r].apiKeyInfo = "Limited Client"
        /\ Entered(r, "validate")

(***************************************************************************)
(* C9 as stated: a request with no x-api-key header, or an empty one, is   *)
(* answered 401 'Unauthorized' with the details that the key is required,  *)
(* and the credential table is not consulted.                              *)
(***************************************************************************)
NoKey(r) ==
    req[r].apiKey.t = "undefined" \/ (req[r].apiKey.t = "string" /\ req[r].apiKey.s = "")

LacksRequiredField(payload) ==
    \/ ~(payload.order_id.t = "string" /\ payload.order_id.s # "")
    \/ ~(payload.customer_id.t = "string" /\ payload.customer_id.s # "")
    \/ ~(payload.items.t = "array" /\ Len(payload.items.a) > 0)
    \/ ~(payload.order_ts.t = "string" /\ payload.order_ts.s \in ParseableTimestamps)

C10_MissingFieldAnswered400 ==
    \A r \in Reqs :
        (Done(r) /\ req[r].bodyKind = "json" /\ req[r].apiKeyInfo # ""
         /\ LacksRequiredField(req[r].payload))
        => /\ req[r].res.status = 400
           /\ req[r].res.error = "Validation failed"
           /\ req[r].res.detailsType = "array"
           /\ Len(req[r].res.details) > 0
           /\ req[r].stages = << "authenticate", "validate", "respond" >>

(***************************************************************************)
(* C11: validation is exhaustive.  For every payload that reaches          *)
(* validation a list is returned that has exactly one entry for each       *)
(* violated rule (order_id, customer_id, items, each item's sku, each      *)
(* item's quantity, order_ts), so it never stops at the first violation;   *)
(* a payload whose only violation is items = [] yields the single entry    *)
(* 'items is required and must be a non-empty array'.                      *)
(***************************************************************************)
\* The rules of section 4.2 the payload violates: the field, and for a rule
\* on an item its position (0 otherwise).
ViolatedRules(payload) ==
    (IF payload.order_id.t = "string" /\ payload.order_id.s # ""
     THEN {} ELSE {<< "order_id", 0 >>})
    \cup (IF payload.customer_id.t = "string" /\ payload.customer_id.s # ""
          THEN {} ELSE {<< "customer_id", 0 >>})
    \cup (IF payload.items.t = "array" /\ Len(payload.items.a) > 0
          THEN {} ELSE {<< "items", 0 >>})
    \cup (IF payload.items.t = "array"
          THEN { << "sku", i >> : i \in
                    { j \in 1..Len(payload.items.a) :
                        ~(/\ payload.items.a[j].t = "object"
                          /\ payload.items.a[j].sku.t = "string"
                          /\ payload.items.a[j].sku.s # "") } }
               \cup
               { << "quantity", i >> : i \in
                    { j \in 1..Len(payload.items.a) :
                        ~(/\ payload.items.a[j].t = "object"
                          /\ payload.items.a[j].quantity.t = "number"
                          /\ (payload.items.a[j].quantity.n > 0
                              \/ (payload.items.a[j].quantity.n = 0
                                  /\ payload.items.a[j].quantity.f > 0))) } }
          ELSE {})
    \cup (IF payload.order_ts.t = "string" /\ payload.order_ts.s \in ParseableTimestamps
          THEN {} ELSE {<< "order_ts", 0 >>})

C11_ValidationExhaustive ==
    \A r \in Reqs :
        (Done(r) /\ Entered(r, "validate") /\ ViolatedRules(req[r].payload) # {})
        => /\ req[r].res.status = 400
           /\ req[r].res.detailsType = "array"
           /\ Len(req[r].res.details) = Cardinality(ViolatedRules(req[r].payload))
           /\ ViolatedRules(req[r].payload) = {<< "items", 0 >>}
                 => req[r].res.details =
                        << "items is required and must be a non-empty array" >>

(***************************************************************************)
(* C12: every order that passes validation has only items whose sku is a   *)
(* non-empty string and whose quantity is an integer strictly greater than *)
(* zero; an order with an item that is not so is answered 400.             *)
(***************************************************************************)
LineItemOk(item) ==
    /\ item.t = "object"
    /\ item.sku.t = "string" /\ item.sku.s # ""
    /\ item.quantity.t = "number" /\ item.quantity.n > 0 /\ item.quantity.f = 0

C12_OnlyWholePositiveQuantitiesPass ==
    \A r \in Reqs :
        (Live(r) /\ Entered(r, "validate") /\ req[r].payload.items.t = "array"
         /\ \E i \in 1..Len(req[r].payload.items.a) :
                ~LineItemOk(req[r].payload.items.a[i]))
        => /\ ~Entered(r, "enrich")
           /\ Done(r) => req[r].res.status = 400

(***************************************************************************)
(* C13: an authenticated, valid order with at least one SKU the catalog    *)
(* does not know never gets past enrichment and is answered 502 by the     *)
(* enrich stage, wherever the unknown SKU stands and however many of the   *)
(* other items can be resolved.                                            *)
(***************************************************************************)
HasUnresolvableSku(payload) ==
    \E i \in 1..Len(payload.items.a) : payload.items.a[i].sku.s \notin CatalogSkus

C13_UnresolvableSkuAnswered502 ==
    \A r \in Reqs :
        (Live(r) /\ req[r].bodyKind = "json" /\ req[r].apiKeyInfo # ""
         /\ WellFormed(req[r].payload) /\ HasUnresolvableSku(req[r].payload))
        => /\ ~Entered(r, "assemble")
           /\ req[r].sends = 0
           /\ Done(r) =>
                 /\ req[r].res.status = 502
                 /\ req[r].stages = << "authenticate", "validate", "enrich", "respond" >>

\* The unknown SKU stands first, before an item that could be resolved.
C13_Witness ==
    \E r \in Reqs :
        /\ Done(r) /\ req[r].res.status = 502
        /\ Len(req[r].payload.items.a) = 2
        /\ req[r].payload.items.a[1].sku.s \notin CatalogSkus
        /\ req[r].payload.items.a[2].sku.s \in CatalogSkus
        /\ req[r].lookups[1].message = "Request failed with status code 404"

(***************************************************************************)
(* C14: when a lookup fails, whatever the cause (not found, timeout,       *)
(* transport error), the invocation ends at once with one enrichment       *)
(* error: the lookups were made in request order, all before the failed    *)
(* one succeeded, none follows it, and the response is 502 with error      *)
(* 'Failed to enrich item with SKU <sku of that item>' and the cause as    *)
(* details.                                                                *)
(***************************************************************************)
C14_FirstFailedLookupNamed ==
    \A r \in Reqs :
        (Live(r) /\ \E i \in 1..Len(req[r].lookups) : ~req[r].lookups[i].ok)
        => LET k == Len(req[r].lookups)
           IN /\ Done(r)
              /\ k <= Len(req[r].payload.items.a)
              /\ \A i \in 1..k : req[r].lookups[i].sku = req[r].payload.items.a[i].sku.s
              /\ \A i \in 1..(k - 1) : req[r].lookups[i].ok
              /\ ~req[r].lookups[k].ok
              /\ req[r].res.status = 502
              /\ req[r].res.error =
                    "Failed to enrich item with SKU " \o req[r].payload.items.a[k].sku.s
              /\ req[r].res.detailsType = "string"
              /\ req[r].res.details = << req[r].lookups[k].message >>
              /\ req[r].sent = 1

\* The first lookup succeeded, the second timed out.
C14_Witness ==
    \E r \in Reqs :
        /\ Done(r) /\ Len(req[r].lookups) = 2
        /\ req[r].lookups[1].ok
        /\ req[r].lookups[2].message = "timeout of 5000ms exceeded"
        /\ req[r].payload.items.a[1].sku # req[r].payload.items.a[2].sku
        /\ req[r].res.error = "Failed to enrich item with SKU INVALID_SKU"

(***************************************************************************)
(* C15: an invocation that sent its order to the queue (authenticated,     *)
(* valid, every item enriched) and whose send failed, whatever the cause   *)
(* (connection refused, timeout, message rejected), is answered 503 with   *)
(* error 'Failed to publish order to queue' and the cause as details.      *)
(***************************************************************************)
C15_PublishFailureAnswered503 ==
    \A r \in Reqs :
        (Done(r) /\ req[r].sends > 0 /\ MessagesBy(r) = {})
        => /\ req[r].apiKeyInfo # ""
           /\ validateOrderPayload(req[r].payload).errors = << >>
           /\ Len(req[r].enrichedItems) = Len(req[r].payload.items.a)
           /\ req[r].res.status = 503
           /\ req[r].res.error = "Failed to publish order to queue"
           /\ req[r].res.detailsType = "string"
           /\ Len(req[r].res.details) = 1
           /\ req[r].res.details[1] \in SendErrors
           /\ ~req[r].res.success

\* The send of a two-item order timed out.
C15_Witness ==
    \E r \in Reqs :
        /\ Done(r) /\ req[r].sends = 1
        /\ Len(req[r].enrichedItems) = 2
        /\ req[r].res = ErrorResponse(503, "Failed to publish order to queue",
                                      "Connection timed out after 120000ms")

(***************************************************************************)
(* C16: an authenticated request whose payload violates a validation rule  *)
(* is answered 400, whatever the catalog and the queue would answer and    *)
(* also when one of its SKUs is unknown to the catalog; no catalog lookup  *)
(* and no queue send is made for it.                                       *)
(***************************************************************************)
C16_InvalidPayloadAnswered400 ==
    \A r \in Reqs :
        (Live(r) /\ req[r].bodyKind = "json" /\ req[r].apiKeyInfo # ""
         /\ ViolatedRules(req[r].payload) # {})
        => /\ req[r].lookups = << >>
           /\ req[r].sends = 0
           /\ MessagesBy(r) = {}
           /\ Done(r) => req[r].res.status = 400

(***************************************************************************)
(* C17: an exception that is no auth, validation, enrichment or publish    *)
(* error (the TypeError validation raises on a null item, the parse error  *)
(* of express.json()) is caught and answered 500 with an error and a       *)
(* details field; the invocation is not left without a response.           *)
(***************************************************************************)
C17_UnexpectedExceptionAnswered500 ==
    \A r \in Reqs : Live(r) =>
        /\ (Entered(r, "validate") /\ validateOrderPayload(req[r].payload).threw)
              => /\ Done(r)
                 /\ req[r].res = ErrorResponse(500, "Internal server error",
                                               TypeErrorMessage)
                 /\ req[r].sent = 1
                 /\ req[r].stages = << "authenticate", "validate", "respond" >>
        /\ req[r].bodyKind = "malformed"
              => /\ Done(r)
                 /\ req[r].res.status = 500
                 /\ req[r].res.error = "Internal server error"
                 /\ req[r].res.detailsType = "string"
                 /\ req[r].sent = 1
        /\ Done(r) => (req[r].sent = 1 /\ req[r].res # NoResponse)

\* Validation raised a TypeError on a null item.
C17_Witness ==
    \E r \in Reqs :
        /\ Done(r) /\ req[r].bodyKind = "json"
        /\ req[r].payload.items.a = << NullItem >>
        /\ req[r].res.status = 500
        /\ req[r].res.details = << TypeErrorMessage >>

(***************************************************************************)
(* C18: every response of POST /orders/assemble that is no success has     *)
(* one of the statuses 400, 401, 500, 502, 503 and a body with an error    *)
(* field and a details field (a string, or a non-empty list of strings);   *)
(* no failure is answered with an empty or unstructured body.              *)
(***************************************************************************)
C18_FailuresAreStructured ==
    \A r \in Reqs :
        (Done(r) /\ req[r].res.status # 200)
        => /\ req[r].res.status \in {400, 401, 500, 502, 503}
           /\ req[r].res.error # ""
           /\ req[r].res.detailsType \in {"string", "array"}
           /\ req[r].res.detailsType = "string" => Len(req[r].res.details) = 1
           /\ req[r].res.detailsType = "array" => Len(req[r].res.details) > 0
           /\ req[r].res.status = 400 <=> req[r].res.detailsType = "array"
           /\ ~req[r].res.success

\* After a validation failure (list of details) a publish failure (one string).
C18_Witness ==
    /\ req[1].pc = "closed" /\ req[1].res.status = 400
    /\ Done(2) /\ req[2].res.status = 503
    /\ req[2].res.error # "" /\ req[2].res.detailsType = "string"

C20_ExactlyOneResponse ==
    \A r \in Reqs : Live(r) =>
        /\ req[r].sent <= 1
        /\ Done(r) <=> req[r].sent = 1
        /\ req[r].sent = 0 <=> req[r].res = NoResponse
        /\ Cardinality({ i \in 1..Len(req[r].stages) : req[r].stages[i] = "respond" })
              = req[r].sent

\* The second invocation ended with a publish failure, after a success.
C20_Witness ==
    /\ req[1].pc = "closed" /\ req[1].res.status = 200
    /\ Done(2) /\ req[2].sent = 1 /\ req[2].sends = 1
    /\ req[2].res.status = 503

(***************************************************************************)
(* C21: every invocation eventually sends its response.  A request that    *)
(* was received and is not yet answered, in particular one that waits for  *)
(* a catalog lookup or for the queue send, is answered in the end: the     *)
(* timeout of the call cuts off an answer that never comes.                *)
(***************************************************************************)
C21_EveryInvocationAnswered ==
    \A r \in Reqs :
        (req[r].pc \in {"auth", "validate", "enrich", "assemble", "publish"})
        ~> (req[r].pc \in {"done", "closed"})

\* The only lookup of an order was cut off by the timeout.
C21_Witness ==
    \E r \in Reqs :
        /\ Done(r) /\ Len(req[r].payload.items.a) = 1
        /\ req[r].lookups = << Lookup("SKU100", [ok |-> FALSE, data |-> "",
                                    message |-> "timeout of 5000ms exceeded"]) >>
        /\ req[r].res.status = 502

(***************************************************************************)
(* C22: within an invocation no remote call is repeated.  The lookups      *)
(* issued (answered, plus the one in flight) are at most one per item, the *)
(* i-th for the i-th item, and none follows a failed one; sendMessage is   *)
(* called at most once, and a failed send is followed by the response, not *)
(* by another send.                                                        *)
(***************************************************************************)
LookupsIssued(r) == Len(req[r].lookups) + (IF req[r].pc = "enrich" THEN 1 ELSE 0)

C22_NoRemoteCallRepeated ==
    \A r \in Reqs : Live(r) =>
        /\ req[r].sends <= 1
        /\ req[r].lookups # << >> =>
              /\ LookupsIssued(r) <= Len(req[r].payload.items.a)
              /\ \A i \in 1..Len(req[r].lookups) :
                    /\ req[r].lookups[i].sku = req[r].payload.items.a[i].sku.s
                    /\ ~req[r].lookups[i].ok => (i = Len(req[r].lookups) /\ Done(r))
        /\ req[r].res.status = 502 => req[r].sends = 0
        /\ req[r].res.status = 503 => (req[r].sends = 1 /\ Done(r))
        /\ Cardinality(MessagesBy(r)) <= 1

\* A failed lookup of the second item and, in a later invocation, a failed send.
C22_Witness ==
    /\ req[1].pc = "closed" /\ req[1].res.status = 502
    /\ Done(2) /\ req[2].res.status = 503
    /\ Len(req[2].lookups) = 2 /\ req[2].sends = 1

(***************************************************************************)
(* C23: under every interleaving of concurrent requests, what a request    *)
(* holds, publishes and answers comes from its own header and body and     *)
(* from the answers to its own calls: its apiKeyInfo is the credential of  *)
(* its own key, its enriched items and its order are built from its own    *)
(* items and ids, its message and its response carry its own order_id,     *)
(* customer_id, items and assembly_id, and none of these appears in the    *)
(* message or the response of another request.                             *)
(***************************************************************************)
OwnItems(r, items) ==
    /\ Len(items) <= Len(req[r].payload.items.a)
    /\ \A i \in 1..Len(items) :
          /\ items[i].sku = req[r].payload.items.a[i].sku
          /\ items[i].quantity = req[r].payload.items.a[i].quantity
          /\ items[i].metadata = MetadataOf(req[r].payload.items.a[i].sku.s)

C23_RequestsAreIsolated ==
    /\ \A r \in Reqs : Live(r) =>
          /\ req[r].apiKeyInfo \in {"", KeyLookup(req[r].apiKey.s).name}
          /\ OwnItems(r, req[r].enrichedItems)
          /\ req[r].enrichedOrder # NoOrder =>
                /\ req[r].enrichedOrder.order_id = req[r].payload.order_id
                /\ req[r].enrichedOrder.customer_id = req[r].payload.customer_id
                /\ req[r].enrichedOrder.order_ts = req[r].payload.order_ts
                /\ req[r].enrichedOrder.items = req[r].enrichedItems
                /\ Len(req[r].enrichedItems) = Len(req[r].payload.items.a)
          /\ req[r].res.status = 200 =>
                /\ req[r].res.order_id = req[r].payload.order_id
                /\ req[r].res.assembly_id = req[r].enrichedOrder.assembly_id
          /\ \A q \in Reqs \ {r} :
                req[r].enrichedOrder # NoOrder =>
                    /\ req[q].res.order_id # req[r].payload.order_id
                    /\ req[q].res.assembly_id # req[r].enrichedOrder.assembly_id
                    /\ req[q].enrichedOrder.assembly_id # req[r].enrichedOrder.assembly_id
    /\ \A i \in 1..Len(queue) :
          LET r == queue[i].by
          IN /\ queue[i].MessageBody = JSONstringify(req[r].enrichedOrder)
             /\ queue[i].MessageAttributes.order_id = req[r].payload.order_id.s
             /\ queue[i].MessageAttributes.customer_id = req[r].payload.customer_id.s
             /\ \A q \in Reqs \ {r} :
                   /\ JSONget(queue[i].MessageBody, "order_id") # req[q].payload.order_id
                   /\ req[q].enrichedOrder # NoOrder =>
                         JSONget(queue[i].MessageBody, "assembly_id")
                             # req[q].enrichedOrder.assembly_id

\* Request 1 was assembled first and published last; the two requests used
\* different keys and carried different items.
C23_Witness ==
    /\ Len(queue) = 2 /\ queue[1].by = 2 /\ queue[2].by = 1
    /\ req[1].enrichedOrder.assembly_id = uuidv4(Rnds(1))
    /\ req[1].apiKeyInfo = "Test Client" /\ req[2].apiKeyInfo = "Limited Client"
    /\ Len(req[1].enrichedItems) # Len(req[2].enrichedItems)
    /\ req[1].res.status = 200 /\ req[2].res.status = 200

(***************************************************************************)
(* C24: no request changes the credential table.  After any sequence of    *)
(* requests, whatever their outcomes, VALID_API_KEYS holds the credentials *)
(* and the expiry values it was loaded with.                               *)
(***************************************************************************)
C24_CredentialTableUnchanged ==
    /\ DOMAIN validApiKeys = StoredKeys
    /\ \A k \in StoredKeys : validApiKeys[k] = VALID_API_KEYS[k]

\* The limited key was rejected as expired, then presented again.
C24_Witness ==
    /\ req[1].pc = "closed" /\ req[1].res.status = 401
    /\ req[2].apiKey = JStr(LimitedKey)
    /\ req[2].authAt > LimitedKeyExpiresAt
    /\ req[2].res = ErrorResponse(401, "Unauthorized", ExpiredKeyDetails)
    /\ validApiKeys[LimitedKey].expiresAt = LimitedKeyExpiresAt

(***************************************************************************)
(* C25: every message handed to the queue, accepted or not, has a body     *)
(* with exactly the order_id, customer_id, items, order_ts, assembled_ts   *)
(* and assembly_id of its invocation, and exactly the two attributes       *)
(* order_id and customer_id, with the values of the request.               *)
(***************************************************************************)
MessageOf(message, r) ==
    /\ Len(message.MessageBody) = 6
    /\ JSONkeys(message.MessageBody) =
          {"order_id", "customer_id", "items", "order_ts", "assembled_ts", "assembly_id"}
    /\ JSONget(message.MessageBody, "order_id") = req[r].payload.order_id
    /\ JSONget(message.MessageBody, "customer_id") = req[r].payload.customer_id
    /\ JSONget(message.MessageBody, "order_ts") = req[r].payload.order_ts
    /\ JSONget(message.MessageBody, "items") = req[r].enrichedItems
    /\ Len(req[r].enrichedItems) = Len(req[r].payload.items.a)
    /\ JSONget(message.MessageBody, "assembled_ts") \in req[r].authAt..now
    /\ IsUuidText(JSONget(message.MessageBody, "assembly_id"))
    /\ JSONget(message.MessageBody, "assembly_id") = req[r].enrichedOrder.assembly_id
    /\ DOMAIN message.MessageAttributes = {"order_id", "customer_id"}
    /\ message.MessageAttributes.order_id = req[r].payload.order_id.s
    /\ message.MessageAttributes.customer_id = req[r].payload.customer_id.s

C25_MessageCarriesItsOrder ==
    /\ \A r \in Reqs : Live(r) =>
          /\ req[r].sends > 0 => MessageOf(SendMessageParams(req[r].enrichedOrder), r)
          /\ \A i \in MessagesBy(r) : MessageOf(queue[i], r)
    /\ \A i \in 1..Len(queue) :
          /\ Len(queue[i].MessageBody) = 6
          /\ DOMAIN queue[i].MessageAttributes = {"order_id", "customer_id"}
          /\ queue[i].MessageAttributes.order_id
                = JSONget(queue[i].MessageBody, "order_id").s
          /\ queue[i].MessageAttributes.customer_id
                = JSONget(queue[i].MessageBody, "customer_id").s

\* A two-item order assembled after the clock had advanced is on the queue.
C25_Witness ==
    \E r \in Reqs :
        /\ Done(r) /\ MessagesBy(r) # {}
        /\ \A i \in MessagesBy(r) :
              /\ JSONget(queue[i].MessageBody, "assembled_ts") > 0
              /\ Len(JSONget(queue[i].MessageBody, "items")) = 2
              /\ queue[i].MessageAttributes = [order_id |-> "O1", customer_id |-> "C1"]

(***************************************************************************)
(* C26: on success the enriched items, as published, are as many as the    *)
(* items of the request and in the same order: element i has the sku and   *)
(* the quantity of request item i and the metadata the catalog returned    *)
(* for that sku.  The lookups complete in request order.                   *)
(***************************************************************************)
C26_ItemOrderPreserved ==
    \A r \in Reqs :
        (Done(r) /\ req[r].res.status = 200)
        => /\ Len(req[r].lookups) = Len(req[r].payload.items.a)
           /\ \A i \in 1..Len(req[r].lookups) :
                 /\ req[r].lookups[i].ok
                 /\ req[r].lookups[i].sku = req[r].payload.items.a[i].sku.s
           /\ \A m \in MessagesBy(r) :
                 JSONget(queue[m].MessageBody, "items") =
                     [i \in 1..Len(req[r].payload.items.a) |->
                         EnrichedItem(req[r].payload.items.a[i],
                                      MetadataOf(req[r].payload.items.a[i].sku.s))]

\* An order of two different items, with different quantities, succeeded.
C26_Witness ==
    \E r \in Reqs :
        /\ Done(r) /\ req[r].res.status = 200
        /\ req[r].payload.items.a = << Sku100, Sku200 >>
        /\ req[r].enrichedOrder.items[1].metadata = "Premium Widget Metadata"
        /\ req[r].enrichedOrder.items[2].metadata = "Standard Gadget Metadata"

(***************************************************************************)
(* C27: every answer of GET /health is 200 with status 'healthy' and       *)
(* service 'order-assembly-service', with or without a credential and      *)
(* whatever the pipeline, the catalog and the queue are doing; the call    *)
(* makes no catalog lookup and no queue send and leaves the requests in    *)
(* flight, the queue and the credential table as they were.                *)
(***************************************************************************)
C27_HealthAlwaysHealthy ==
    [][ health' # health =>
          /\ health'.status = 200
          /\ health'.body.status = "healthy"
          /\ health'.body.service = "order-assembly-service"
          /\ health'.body.timestamp = now
          /\ health'.body.version = "1.0.0"
          /\ UNCHANGED << req, queue, drawn, validApiKeys >> ]_vars

\* The health check was answered while a queue send was in flight, after a
\* lookup of an earlier request had failed.
C27_Witness ==
    /\ health = HealthResponse(now) /\ now > 0
    /\ req[1].pc = "closed" /\ req[1].res.status = 502
    /\ req[2].pc = "publish"

(***************************************************************************)
(* C28: a valid order sent with an accepted key is never answered with a   *)
(* validation failure, whatever the catalog and the queue answer: its      *)
(* status is 200, 502 or 503, never 400; a failed lookup shows as 502 and  *)
(* a failed send as 503.                                                   *)
(***************************************************************************)
C28_ValidOrderNeverAnswered400 ==
    \A r \in Reqs :
        (Done(r) /\ req[r].bodyKind = "json" /\ req[r].apiKeyInfo # ""
         /\ WellFormed(req[r].payload))
        => /\ req[r].res.status # 400
           /\ req[r].res.error # "Validation failed"
           /\ req[r].res.status \in {200, 502, 503}
           /\ (\E i \in 1..Len(req[r].lookups) : ~req[r].lookups[i].ok)
                 <=> req[r].res.status = 502
           /\ (req[r].sends = 1 /\ MessagesBy(r) = {}) <=> req[r].res.status = 503

\* The catalog resolved the only item, then the queue was unreachable.
C28_Witness ==
    \E r \in Reqs :
        /\ Done(r) /\ WellFormed(req[r].payload)
        /\ Len(req[r].lookups) = 1 /\ req[r].lookups[1].ok
        /\ req[r].res.status = 503
        /\ req[r].res.details = << "connect ECONNREFUSED" >>

(***************************************************************************)
(* C29: a 200 response exists only for an invocation whose message the     *)
(* queue accepted: the queue holds exactly one message of that invocation, *)
(* the assembly_id of the response is the assembly_id in the body of that  *)
(* message and its sqs_message_id is the MessageId the queue gave it.      *)
(***************************************************************************)
C29_SuccessMatchesQueuedMessage ==
    \A r \in Reqs :
        req[r].res.status = 200
        => /\ Cardinality(MessagesBy(r)) = 1
           /\ \A i \in MessagesBy(r) :
                 /\ req[r].res.assembly_id = JSONget(queue[i].MessageBody, "assembly_id")
                 /\ req[r].res.sqs_message_id = queue[i].MessageId
                 /\ queue[i].MessageId > 0

\* The second of two successes: its message is the second on the queue.
C29_Witness ==
    /\ req[1].pc = "closed" /\ req[1].res.sqs_message_id = 1
    /\ Done(2) /\ req[2].res.success
    /\ req[2].res.sqs_message_id = 2
    /\ Len(queue) = 2

(***************************************************************************)
(* C30: once every item of an order is enriched, exactly one publish       *)
(* attempt is made for it.  The assemble step has no failure exit: the     *)
(* order is stamped and sent, and the invocation ends with the answer to   *)
(* that send, 200 or 503, never with a response that no send preceded.     *)
(***************************************************************************)
EnrichmentSucceeded(r) ==
    /\ Entered(r, "enrich")
    /\ Len(req[r].lookups) = Len(req[r].payload.items.a)
    /\ \A i \in 1..Len(req[r].lookups) : req[r].lookups[i].ok

C30_EnrichedOrderIsSentOnce ==
    \A r \in Reqs : (Live(r) /\ EnrichmentSucceeded(r)) =>
        /\ req[r].pc \in {"assemble", "publish", "done"}
        /\ req[r].pc = "assemble" <=> req[r].sends = 0
        /\ req[r].pc # "assemble" =>
              /\ req[r].sends = 1
              /\ req[r].enrichedOrder # NoOrder
              /\ Entered(r, "assemble") /\ Entered(r, "publish")
        /\ Done(r) => req[r].res.status \in {200, 503}

\* Both items of an order were enriched and the send was refused.
C30_Witness ==
    \E r \in Reqs :
        /\ Done(r) /\ EnrichmentSucceeded(r)
        /\ Len(req[r].lookups) = 2
        /\ req[r].sends = 1
        /\ req[r].res.details = << "The specified queue does not exist." >>

(***************************************************************************)
(* The test helpers: sqsHelper.                                            *)
(***************************************************************************)
\* JSON.parse of a serialized body: the object with the keys of the text.
JSONparse(text) == [k \in JSONkeys(text) |-> JSONget(text, k)]

\* The message as ReceiveMessage hands it to a test: Body is the text sent.
ReceivedMessage(message) ==
    [Body |-> message.MessageBody, MessageId |-> message.MessageId,
     ReceiptHandle |-> message.MessageId]

\* sqsHelper.validateEnrichedData(message, expectedSkus): TRUE when the promise
\* resolves, FALSE when an expectation fails and the promise rejects.
validateEnrichedData(message, expectedSkus) ==
    LET body == JSONparse(message.Body)
    IN  IF "enriched_items" \notin DOMAIN body
        THEN FALSE
        ELSE LET enrichedItems == body["enriched_items"]
             IN  \A i \in 1..Len(expectedSkus) :
                    \E j \in 1..Len(enrichedItems) :
                        enrichedItems[j].sku = expectedSkus[i]

\* The SKUs of the order of invocation r, as a test lists them.
SkusOf(r) ==
    [i \in 1..Len(req[r].payload.items.a) |-> req[r].payload.items.a[i].sku]

(***************************************************************************)
(* C31: every message the service publishes for a successful order passes  *)
(* sqsHelper.validateEnrichedData for the SKUs of that order: its body has *)
(* an enriched_items array with an element for each expected sku.          *)
(***************************************************************************)
C31_PublishedMessagePassesHelper ==
    \A r \in Reqs : \A i \in MessagesBy(r) :
        (Live(r) /\ req[r].res.status = 200)
        => validateEnrichedData(ReceivedMessage(queue[i]), SkusOf(r))

(***************************************************************************)
(* The test helpers: apiHelper.  A JavaScript object is a function from    *)
(* its property names to their values.                                     *)
(***************************************************************************)
MaxCalls == 2

\* {}
NoProps == [k \in {} |-> ""]

\* { ...base, ...ext }: the properties of ext replace those of base.
Spread(base, ext) ==
    [k \in DOMAIN base \cup DOMAIN ext |-> IF k \in DOMAIN ext THEN ext[k] ELSE base[k]]

\* options.headers || {}
HeadersOf(options) ==
    IF "headers" \in DOMAIN options THEN options["headers"] ELSE NoProps

\* The object apiHelper.get and apiHelper.delete hand to cy.request.
RequestWithoutBody(method, endpoint, options, key) ==
    LET headers == HeadersOf(options)
    IN  Spread([method |-> method, url |-> endpoint,
                headers |-> Spread([n \in {"x-api-key"} |-> key], headers)],
               options)

\* The object apiHelper.post and apiHelper.put hand to cy.request.
RequestWithBody(method, endpoint, payload, options, key) ==
    LET headers == HeadersOf(options)
    IN  Spread([method |-> method, url |-> endpoint, body |-> payload,
                headers |-> Spread([n \in {"Content-Type", "x-api-key"} |->
                                       IF n = "x-api-key" THEN key
                                       ELSE "application/json"],
                                   headers)],
               options)

\* cy.request(object): the command is queued with the object as it was built.
Enqueue(request, options) ==
    /\ Len(commands) < MaxCalls
    /\ commands' = Append(commands,
            [request |-> request, options |-> options,
             keyAtCall |-> defaultApiKey, keyCallAtCall |-> lastKeyCall])
    /\ UNCHANGED << serviceVars, defaultApiKey, lastKeyCall, delivered, wait, setup >>

setDefaultApiKey(key) ==
    /\ defaultApiKey' = key
    /\ lastKeyCall' = "set"
    /\ UNCHANGED << serviceVars, commands, delivered, wait, setup >>

resetDefaultApiKey ==
    /\ defaultApiKey' = "sk-test-valid-key-123456789"
    /\ lastKeyCall' = "reset"
    /\ UNCHANGED << serviceVars, commands, delivered, wait, setup >>

get(endpoint, options) ==
    Enqueue(RequestWithoutBody("GET", endpoint, options, defaultApiKey), options)

post(endpoint, payload, options) ==
    Enqueue(RequestWithBody("POST", endpoint, payload, options, defaultApiKey), options)

put(endpoint, payload, options) ==
    Enqueue(RequestWithBody("PUT", endpoint, payload, options, defaultApiKey), options)

delete(endpoint, options) ==
    Enqueue(RequestWithoutBody("DELETE", endpoint, options, defaultApiKey), options)

\* Cypress runs the next queued command: the request goes out as it was built.
CypressSends ==
    /\ delivered < Len(commands)
    /\ delivered' = delivered + 1
    /\ UNCHANGED << serviceVars, defaultApiKey, lastKeyCall, commands, wait, setup >>

\* What the tests pass to the helper.
OwnKey == "sk-test-own-key-000000000"
HelperKeys == {ValidKey, LimitedKey}
HelperEndpoint == "/orders/assemble"
HelperPayload == "validOrder"
HelperOptions ==
    { NoProps,
      [k \in {"failOnStatusCode"} |-> FALSE],
      [k \in {"headers"} |-> [n \in {"x-api-key"} |-> OwnKey]],
      [k \in {"headers"} |-> [n \in {"X-Request-Id"} |-> "t-1"]] }

NextHelper ==
    \/ \E key \in HelperKeys : setDefaultApiKey(key)
    \/ resetDefaultApiKey
    \/ \E options \in HelperOptions : get(HelperEndpoint, options)
    \/ \E options \in HelperOptions : post(HelperEndpoint, HelperPayload, options)
    \/ \E options \in HelperOptions : put(HelperEndpoint, HelperPayload, options)
    \/ \E options \in HelperOptions : delete(HelperEndpoint, options)
    \/ CypressSends

SpecHelper == Init /\ [][NextHelper]_vars

\* The caller's options.headers supplies its own x-api-key.
SuppliesOwnKey(options) == "x-api-key" \in DOMAIN HeadersOf(options)

\* The x-api-key header the request carries, "" when it carries none.
CarriedKey(request) ==
    IF "x-api-key" \in DOMAIN request["headers"]
    THEN request["headers"]["x-api-key"] ELSE ""

(***************************************************************************)
(* C32: every request built by apiHelper.get, post, put or delete carries  *)
(* an x-api-key header: the caller's own when options.headers supplies     *)
(* one, the default key of the moment otherwise; other options and other   *)
(* headers never remove the key.                                           *)
(***************************************************************************)
C32_EveryRequestCarriesKey ==
    \A i \in 1..Len(commands) :
        /\ "x-api-key" \in DOMAIN commands[i].request["headers"]
        /\ CarriedKey(commands[i].request) =
              IF SuppliesOwnKey(commands[i].options)
              THEN HeadersOf(commands[i].options)["x-api-key"]
              ELSE commands[i].keyAtCall

(***************************************************************************)
(* C33: a helper request carries the default key of the moment the helper  *)
(* method was called, also when Cypress sends it after the default was     *)
(* changed or reset; a request made while the last key call is             *)
(* resetDefaultApiKey carries sk-test-valid-key-123456789.                 *)
(***************************************************************************)
C33_KeyFixedAtCall ==
    \A i \in 1..Len(commands) :
        ~SuppliesOwnKey(commands[i].options) =>
            /\ CarriedKey(commands[i].request) = commands[i].keyAtCall
            /\ commands[i].keyCallAtCall = "reset" =>
                  CarriedKey(commands[i].request) = "sk-test-valid-key-123456789"

(***************************************************************************)
(* The test helpers: sqsHelper.waitForMessage.  Times are in units of the  *)
(* clock Date.now() reads.                                                 *)
(***************************************************************************)
MaxTimeout == 3
MaxInterval == 2
MaxPollTime == 2

TimeoutError == "Timeout waiting for message in queue: assembled-orders"
QueueUrlError == "Failed to get queue URL: 500"

\* What a poll can end with: receiveMessage resolves with the messages of the
\* response ([] when the response is not a 200 with a result), or getQueueUrl
\* throws because the queue URL request was not answered 200.
PollOutcomes ==
    { [ok |-> TRUE, messages |-> << >>],
      [ok |-> TRUE, messages |-> << "m1" >>],
      [ok |-> TRUE, messages |-> << "m2", "m1" >>],
      [ok |-> FALSE, messages |-> << >>] }

\* sqsHelper.receiveMessage(queueName, 1) is called: a poll is in flight.
StartPoll(w, time) ==
    [w EXCEPT !.pc = "polling", !.clock = time,
              !.polls = @ \o << [start |-> time, end |-> -1, ok |-> TRUE,
                                 messages |-> << >>] >>]

\* waitForMessage(queueName, timeout, pollInterval): startTime is read and
\* pollQueue() is called.
waitForMessage(time, timeout, pollInterval) ==
    /\ wait.pc = "idle"
    /\ wait' = StartPoll([wait EXCEPT !.startTime = time, !.timeout = timeout,
                                      !.pollInterval = pollInterval], time)
    /\ UNCHANGED << serviceVars, apiVars, setup >>

\* Variant: the timeout test is >= instead of >.
PollCompletesInclusive(duration, outcome) ==
    /\ wait.pc = "polling"
    /\ LET time == wait.clock + duration
           n == Len(wait.polls)
           w == [wait EXCEPT !.clock = time,
                             !.polls[n] = [@ EXCEPT !.end = time, !.ok = outcome.ok,
                                                    !.messages = outcome.messages]]
       IN  wait' =
             IF ~outcome.ok
             THEN [w EXCEPT !.pc = "rejected", !.error = QueueUrlError]
             ELSE IF Len(outcome.messages) > 0
             THEN [w EXCEPT !.pc = "resolved", !.result = outcome.messages[1]]
             ELSE IF time - wait.startTime >= wait.timeout
             THEN [w EXCEPT !.pc = "rejected", !.error = TimeoutError]
             ELSE [w EXCEPT !.pc = "sleeping", !.wakeAt = time + wait.pollInterval]
    /\ UNCHANGED << serviceVars, apiVars, setup >>

\* The poll in flight ends after duration units and the callback of
\* receiveMessage(...).then runs (or, when getQueueUrl threw, is skipped).
PollCompletes(duration, outcome) ==
    /\ wait.pc = "polling"
    /\ LET time == wait.clock + duration
           n == Len(wait.polls)
           w == [wait EXCEPT !.clock = time,
                             !.polls[n] = [@ EXCEPT !.end = time, !.ok = outcome.ok,
                                                    !.messages = outcome.messages]]
       IN  wait' =
             IF ~outcome.ok
             THEN [w EXCEPT !.pc = "rejected", !.error = QueueUrlError]
             ELSE IF Len(outcome.messages) > 0
             THEN [w EXCEPT !.pc = "resolved", !.result = outcome.messages[1]]
             ELSE IF time - wait.startTime > wait.timeout
             THEN [w EXCEPT !.pc = "rejected", !.error = TimeoutError]
             ELSE [w EXCEPT !.pc = "sleeping", !.wakeAt = time + wait.pollInterval]
    /\ UNCHANGED << serviceVars, apiVars, setup >>

\* The timer set by setTimeout(..., pollInterval) fires, late units after it
\* was due, and calls pollQueue().
TimerFires(late) ==
    /\ wait.pc = "sleeping"
    /\ wait' = StartPoll(wait, wait.wakeAt + late)
    /\ UNCHANGED << serviceVars, apiVars, setup >>

StartTimes == {0, 5}

PollEnds == \E duration \in 1..MaxPollTime : \E outcome \in PollOutcomes :
                PollCompletes(duration, outcome)

TimerEnds == \E late \in 0..1 : TimerFires(late)

NextWait ==
    \/ \E time \in StartTimes : \E timeout \in 0..MaxTimeout :
          \E pollInterval \in 0..MaxInterval :
             waitForMessage(time, timeout, pollInterval)
    \/ PollEnds
    \/ TimerEnds

\* Every poll completes, and a timer that was set fires.
FairnessWait == WF_vars(PollEnds) /\ WF_vars(TimerEnds)

SpecWait == Init /\ [][NextWait]_vars /\ FairnessWait

\* waitForMessage has resolved or rejected.
WaitEnded == wait.pc \in {"resolved", "rejected"}

\* The polls before the n-th each resolved with no message, not later than
\* timeout after the start.
EarlierPollsEmpty(n) ==
    \A j \in 1..(n - 1) :
        /\ wait.polls[j].ok /\ wait.polls[j].messages = << >>
        /\ wait.polls[j].end - wait.startTime <= wait.timeout

\* At least one poll is made; a poll starts no sooner than pollInterval after
\* the poll before it ended; when the wait has ended no poll is in flight.
PollsSpaced ==
    /\ wait.pc # "idle" => Len(wait.polls) >= 1
    /\ \A j \in 2..Len(wait.polls) :
          /\ wait.polls[j - 1].end >= 0
          /\ wait.polls[j].start >= wait.polls[j - 1].end + wait.pollInterval
    /\ WaitEnded => wait.polls[Len(wait.polls)].end >= 0

\* Resolved: with the first message of the first poll that was not empty.
ResolvedWithFirstMessage ==
    LET n == Len(wait.polls)
    IN  /\ wait.pc = "resolved"
        /\ wait.polls[n].ok /\ wait.polls[n].messages # << >>
        /\ wait.result = wait.polls[n].messages[1]
        /\ wait.error = ""
        /\ EarlierPollsEmpty(n)

\* Rejected: with the timeout error, at the first empty poll that completed
\* more than timeout after the start.
RejectedAtTimeout ==
    LET n == Len(wait.polls)
    IN  /\ wait.pc = "rejected"
        /\ wait.error = TimeoutError /\ wait.result = ""
        /\ wait.polls[n].ok /\ wait.polls[n].messages = << >>
        /\ wait.polls[n].end - wait.startTime > wait.timeout
        /\ EarlierPollsEmpty(n)

\* Rejected: with the error of the first poll in which getQueueUrl threw.
RejectedByFailedPoll ==
    LET n == Len(wait.polls)
    IN  /\ wait.pc = "rejected"
        /\ wait.error = QueueUrlError /\ wait.result = ""
        /\ ~wait.polls[n].ok
        /\ EarlierPollsEmpty(n)

Attempts == 30

Healthy(service) == "OK " \o Services[service] \o " is healthy"
Failed(service) == "FAIL " \o Services[service] \o " failed to start"
SetupComplete == "Setup Complete!"

\* exit: the script ends with the given status.
Exit(s, status) == [s EXCEPT !.pc = "exited", !.status = status]

\* if ! docker info > /dev/null 2>&1; then echo ERROR; exit 1; fi
CheckDocker(running) ==
    /\ setup.pc = "docker"
    /\ setup' = IF running
                THEN [setup EXCEPT !.pc = "compose"]
                ELSE Exit([setup EXCEPT !.out = Append(@, "ERROR: Docker is not running")], 1)
    /\ UNCHANGED << serviceVars, apiVars, wait >>

\* Steps 1 and 2: docker --version, docker compose --version and docker
\* compose up -d, then sleep 10 and the first loop is entered.
StartServices(status) ==
    /\ setup.pc = "compose"
    /\ setup' = IF status = 0
                THEN [setup EXCEPT !.pc = "probe", !.service = 1, !.i = 1]
                ELSE Exit(setup, status)
    /\ UNCHANGED << serviceVars, apiVars, wait >>

\* Variant: a service that failed its last attempt is given up with break, and
\* the script goes on to the next loop.
ProbeBreaksOnFailure(code) ==
    /\ setup.pc = "probe"
    /\ LET s == [setup EXCEPT !.probes[setup.service] = @ + 1, !.curl = code]
           next == IF setup.service < 3
                   THEN [s EXCEPT !.service = @ + 1, !.i = 1]
                   ELSE [s EXCEPT !.pc = "step4"]
       IN  setup' =
             IF code = 0
             THEN [next EXCEPT !.out = Append(@, Healthy(setup.service))]
             ELSE IF setup.i = Attempts
             THEN [next EXCEPT !.out = Append(@, Failed(setup.service))]
             ELSE [s EXCEPT !.i = @ + 1]
    /\ UNCHANGED << serviceVars, apiVars, wait >>

\* One turn of a loop for i in {1..30}: curl -s -f <health url> ends with
\* code; on 0 the loop is left for the next one, on the 30th failure the
\* script exits with 1, otherwise sleep 1 and the next attempt.
Probe(code) ==
    /\ setup.pc = "probe"
    /\ LET s == [setup EXCEPT !.probes[setup.service] = @ + 1, !.curl = code]
           next == IF setup.service < 3
                   THEN [s EXCEPT !.service = @ + 1, !.i = 1]
                   ELSE [s EXCEPT !.pc = "step4"]
       IN  setup' =
             IF code = 0
             THEN [next EXCEPT !.out = Append(@, Healthy(setup.service))]
             ELSE IF setup.i = Attempts
             THEN Exit([s EXCEPT !.out = Append(@, Failed(setup.service))], 1)
             ELSE [s EXCEPT !.i = @ + 1]
    /\ UNCHANGED << serviceVars, apiVars, wait >>

\* Step 4 and the closing lines; the script ends with status 0.
Complete ==
    /\ setup.pc = "step4"
    /\ setup' = Exit([setup EXCEPT !.out = Append(@, SetupComplete)], 0)
    /\ UNCHANGED << serviceVars, apiVars, wait >>

\* Exit codes of curl -s -f: 0 answered below 400, 7 connection refused,
\* 22 answered 400 or above.  Statuses of a docker command.
CurlCodes == {0, 7, 22}
DockerStatuses == {0, 1, 125}

NextSetup ==
    \/ \E running \in BOOLEAN : CheckDocker(running)
    \/ \E status \in DockerStatuses : StartServices(status)
    \/ \E code \in CurlCodes : Probe(code)
    \/ Complete

SpecSetup == Init /\ [][NextSetup]_vars

Printed(line) == \E k \in 1..Len(setup.out) : setup.out[k] = line
LineOf(line) == CHOOSE k \in 1..Len(setup.out) : setup.out[k] = line

(***************************************************************************)
(* C35: setup.sh prints Setup Complete! only if WireMock, LocalStack and   *)
(* the Order Assembly Service, probed in that order, each answered a       *)
(* health probe within 30 attempts; when a service did not answer any of   *)
(* its 30 attempts the script has exited with status 1 right after the     *)
(* 30th, and no later service was probed.                                  *)
(***************************************************************************)
C35_SetupCompleteOnlyWhenAllHealthy ==
    /\ Printed(SetupComplete) =>
          /\ setup.status = 0
          /\ \A s \in 1..3 : Printed(Healthy(s)) /\ setup.probes[s] \in 1..Attempts
          /\ LineOf(Healthy(1)) < LineOf(Healthy(2))
          /\ LineOf(Healthy(2)) < LineOf(Healthy(3))
          /\ LineOf(Healthy(3)) < LineOf(SetupComplete)
    /\ \A s \in 1..3 :
          /\ setup.probes[s] <= Attempts
          /\ (s > 1 /\ setup.probes[s] > 0) => Printed(Healthy(s - 1))
          /\ (setup.probes[s] = Attempts /\ ~Printed(Healthy(s))) =>
                /\ setup.pc = "exited" /\ setup.status = 1
                /\ Printed(Failed(s))
                /\ ~Printed(SetupComplete)
                /\ \A t \in (s + 1)..3 : setup.probes[t] = 0
          /\ Printed(Failed(s)) => (setup.probes[s] = Attempts /\ ~Printed(Healthy(s)))

\* LocalStack answered only its 30th probe and the script completed.
C35_Witness ==
    /\ Printed(SetupComplete)
    /\ setup.probes[2] = Attempts
    /\ setup.probes[1] = 1

====
